---- MODULE Spec2Model ----
(***************************************************************************)
(* Air-gesture controller: the gesture dispatcher (main.py), the capture/  *)
(* processing worker and its bounded result channel (camera_manager.py),   *)
(* the swipe detector (swipe_engine.py) and the per-frame gesture          *)
(* processor (gesture_engine.py).                                          *)
(* The dispatcher's clock counts ticks of 0.1 s; join() counts seconds.    *)
(* The worker's clock counts ticks of 0.05 s; normalized image coordinates *)
(* are counted in units of 0.01.                                           *)
(***************************************************************************)
EXTENDS Integers, Sequences, FiniteSets, TLC

(* ------------------------------ bounds -------------------------------- *)
\* Horizon of the wall clock of the dispatcher, in ticks.
MaxTime == 13
\* Largest gap, in ticks, between two consecutive consumer cycles.
MaxStep == 4

\* Results one worker publishes before its camera delivers no more frames.
MaxFrames == 3
\* Sessions started (calls of start_camera that start a worker).
MaxSessions == 2
\* Horizon of the worker's clock in the swipe detector's specification, in
\* ticks (the clock starts at SWIPE_COOLDOWN).
MaxSwipeTime == 17
\* Horizon of the worker's clock in the classification specification.
MaxEngineTime == 12
\* Horizon of the worker's clock in the tracking specification.
MaxTrackingTime == 15
\* VisionThread objects created in the lifecycle specification.
MaxThreads == 3
\* The worker's clock at which the buffer specification stops.
MaxBufferTime == 18
\* Calls of the landmark smoother in the landmark specification.
MaxLandmarkCalls == 4
\* Calls of the pointer smoother in the pointer specification.
MaxPointerCalls == 6
\* Frames the worker processes in the low-light specification.
MaxLightFrames == 90

(* ------------------------- program constants -------------------------- *)
\* queue.Queue(maxsize=2)
QUEUE_MAXSIZE == 2
\* self.vision_thread.join(timeout=2.0), in seconds
JOIN_TIMEOUT == 2
\* config.GESTURE_COOLDOWN = 0.3 s
GESTURE_COOLDOWN == 3

\* config.PROFILES: profile name -> (gesture label -> key tokens)
PROFILES ==
  [DEFAULT    |-> [SWIPE_RIGHT |-> <<"right">>, SWIPE_LEFT |-> <<"left">>],
   POWERPOINT |-> [THUMBS_UP |-> <<"right">>, THUMBS_DOWN |-> <<"left">>,
                   V_SIGN |-> <<"b">>, OK_SIGN |-> <<"home">>,
                   SPIDERMAN |-> <<"end">>,
                   SWIPE_RIGHT |-> <<"right">>, SWIPE_LEFT |-> <<"left">>],
   CHROME     |-> [THUMBS_UP |-> <<"ctrl", "tab">>,
                   THUMBS_DOWN |-> <<"ctrl", "shift", "tab">>,
                   SWIPE_RIGHT |-> <<"alt", "right">>,
                   SWIPE_LEFT |-> <<"alt", "left">>,
                   OPEN_PALM |-> <<"f5">>, OK_SIGN |-> <<"ctrl", "t">>]]

\* The PROFILES entry of the config.json of this model: the user has the
\* mapping of OPEN_PALM, which config.py:10 comments out, in DEFAULT.
CONFIG_FILE_PROFILES == [DEFAULT |-> [OPEN_PALM |-> <<"f5">>]]

\* load_config, line 209-215: the saved mappings update the profiles that
\* exist and add the ones that do not
LoadConfig(profiles, saved_profiles) ==
  [p \in DOMAIN profiles \cup DOMAIN saved_profiles |->
     IF p \notin DOMAIN saved_profiles THEN profiles[p]
     ELSE IF p \notin DOMAIN profiles THEN saved_profiles[p]
     ELSE [g \in DOMAIN profiles[p] \cup DOMAIN saved_profiles[p] |->
             IF g \in DOMAIN saved_profiles[p] THEN saved_profiles[p][g]
             ELSE profiles[p][g]]]

\* config.PROFILES as the program sees it after load_config
LoadedProfiles == LoadConfig(PROFILES, CONFIG_FILE_PROFILES)

\* The labels a cycle can deliver to the dispatcher (a representative of each
\* kind: UNKNOWN, the static sign mapped in DEFAULT, the two swipes, a sign
\* mapped nowhere).
GestureLabels == {"UNKNOWN", "OPEN_PALM", "SWIPE_LEFT", "SWIPE_RIGHT", "FIST"}

\* self.last_gesture = None
NoGesture == "None"

VARIABLES
  \* --- GestureControllerApp (consumer thread) ---
  last_gesture,          \* self.last_gesture
  last_gesture_time,     \* self.last_gesture_time
  current_profile_name,  \* self.current_profile_name
  is_overlay,            \* self.ui_manager.is_overlay
  now,                   \* time.time() as read in the last cycle
  gesture,               \* the label handed to _handle_logic in the last cycle
  hotkeys,               \* pyautogui.hotkey calls issued by the last cycle
  action_times,          \* times of the last two hotkey calls (history)
  locked,                \* labels fired since the last cycle handled as UNKNOWN (history)
  window_title,          \* the title the last call of _update_app_state read
  update_scheduled,      \* root.after(10, self.update) is pending
  \* --- VisionThread (worker thread) ---
  wpc,                   \* the worker's position in run()
  stop_event,            \* self.stop_event.is_set()
  cap,                   \* self.cap: none / open / failed (not opened) / released
  gesture_processor,     \* self.gesture_processor: none / created / closed
  frame_skip_counter,    \* frame_skip_counter % 2
  exc,                   \* where the exception caught by run() was raised
  log,                   \* logging.error messages of the worker
  \* --- the result channel ---
  result_queue,          \* the entries of the queue, oldest first (result ids)
  published,             \* id of the last result put by the worker
  dropped,               \* the entry removed by the worker's get_nowait
  \* --- CameraManager and the Tk main thread ---
  mpc,                   \* main thread: idle / drain (get_latest_frame) / joining
  latest,                \* get_latest_frame's local `latest` (0 is None)
  vision_thread,         \* self.vision_thread is not None
  join_wait,             \* seconds spent in join() so far
  sessions,              \* workers started so far
  \* --- event bus and its subscribers ---
  status,                \* last "camera:status" text shown ("Idle" before any)
  is_camera_running,     \* AppUIManager.is_camera_running
  timers                 \* pending threading.Timer callbacks of start_camera

VARIABLES
  \* --- SwipeDetector ---
  history,               \* self.history: samples [x, y, t], oldest first
  last_swipe_time,       \* self.last_swipe_time
  swipe_gesture,         \* the value returned by the last call of process
  trajectory,            \* the buffer the last call of process evaluated (history)
  wnow                   \* time.time() as read by the worker for the last frame

VARIABLES
  \* --- GestureProcessor ---
  missed_frames,         \* self.missed_frames
  gesture_buffer,        \* self.gesture_buffer: the votes, oldest first
  landmarks,             \* self.landmarks (raw points of the last hand)
  filtered_landmarks,    \* self.filtered_landmarks
  landmark_smoother,     \* self.landmark_smoother: one filter per landmark
  pointer_smoother,      \* self.pointer_smoother
  final_gesture,         \* the label process_frame returned
  pointer_info,          \* the pointer record process_frame returned (<<>> is None)
  frame_in,              \* what the detector found in the last frame (history)
  enabled_signs          \* config.ENABLED_SIGNS

dispVars == <<last_gesture, last_gesture_time, current_profile_name, is_overlay,
              now, gesture, hotkeys, action_times, locked, window_title,
              update_scheduled>>

workerVars == <<wpc, stop_event, cap, gesture_processor, frame_skip_counter,
                exc, log>>
queueVars == <<result_queue, published, dropped>>
mainVars == <<mpc, latest, vision_thread, join_wait, sessions>>
busVars == <<status, is_camera_running, timers>>
pipeVars == <<workerVars, queueVars, mainVars, busVars>>

VARIABLES
  \* --- GestureRecorder ---
  gestures,              \* self.gestures: entries [name, template] in insertion order
  gestures_file,         \* the content of custom_gestures.json (<<>>: no file)
  match,                 \* the value the last call of find_match returned
  saved                  \* the value the last call of save_gesture returned

swipeVars == <<history, last_swipe_time, swipe_gesture, trajectory, wnow>>
procVars == <<missed_frames, gesture_buffer, landmarks, filtered_landmarks,
              landmark_smoother, pointer_smoother, final_gesture, pointer_info,
              frame_in, enabled_signs>>
VARIABLES
  \* --- CameraManager and its threads (lifecycle) ---
  threads,               \* every VisionThread created so far: "alive" or "exited"
  stop_events,           \* the threads whose stop_event is set
  cm_thread,             \* self.vision_thread: a thread id, 0 for None
  cm_pc,                 \* where the main thread is inside a command
  cm_joined,             \* the thread stop_camera is joining
  cm_wait,               \* seconds spent in join(timeout=2.0)
  cm_restart,            \* stop_camera was called by change_camera
  timer_pc,              \* where the Timer(0.5) thread is inside start_camera
  restart_timers,        \* pending Timer(0.5, self.start_camera)
  notify_timers,         \* pending Timer(0.1) publications
  camera_index,          \* config.CAMERA_INDEX
  events                 \* the last "camera:status" text and lifecycle event published

VARIABLES
  \* --- VisionThread: auto low light ---
  frame_counter,         \* self.frame_counter
  low_light_mode,        \* config.LOW_LIGHT_MODE
  avg,                   \* np.mean(gray) of the last frame (history)
  toggles                \* how often the flag has changed (history)

VARIABLES
  \* --- GestureProcessor._recognize_gesture ---
  pose_landmarks,        \* self.landmarks as _recognize_gesture reads them
  shape,                 \* the label _recognize_gesture returned
  consulted,             \* whether that call reached recorder.find_match (history)
  seen_gestures          \* recorder.gestures as that call found them (history)

VARIABLES
  \* --- LandmarkSmoother, called on its own ---
  fed,                   \* per landmark, the measurements given for it (history)
  ls_call,               \* the last call: its name, index and raw position
  smoothed,              \* what get_smoothed_position returned
  ls_calls               \* the number of calls so far

VARIABLES
  \* --- PointerSmoother, called on its own ---
  used_smoother,         \* a PointerSmoother that is updated and reset
  fresh_smoother,        \* a PointerSmoother constructed when the other is reset
  since_reset,           \* updates since reset(): 0, 1, 2 (or more); -1 before it
  ptr_time,              \* time.time() of the last update, in ticks
  ptr_calls              \* the number of calls so far

recVars == <<gestures, gestures_file, match, saved>>
ptrVars == <<used_smoother, fresh_smoother, since_reset, ptr_time, ptr_calls>>
lsVars == <<fed, ls_call, smoothed, ls_calls>>
recogVars == <<pose_landmarks, shape, consulted, seen_gestures>>
lightVars == <<frame_counter, low_light_mode, avg, toggles>>
lifeVars == <<threads, stop_events, cm_thread, cm_pc, cm_joined, cm_wait,
              cm_restart, timer_pc, restart_timers, notify_timers,
              camera_index, events>>
extVars == <<lifeVars, lightVars, recogVars, lsVars, ptrVars>>
engVars == <<swipeVars, procVars, recVars, extVars>>

vars == <<dispVars, pipeVars, engVars>>

(* ------------------------- Gesture dispatcher ------------------------- *)

\* config.PROFILES.get(self.current_profile_name, config.PROFILES['DEFAULT'])
CurrentProfile ==
  IF current_profile_name \in DOMAIN LoadedProfiles
  THEN LoadedProfiles[current_profile_name] ELSE LoadedProfiles["DEFAULT"]

\* main.py:444-445: a label without a mapping is handled as UNKNOWN
FilterGesture(g) ==
  IF g # "UNKNOWN" /\ g \notin DOMAIN CurrentProfile THEN "UNKNOWN" ELSE g

IsNewGesture_Repeat(g) == g # "UNKNOWN"

\* main.py:452: gesture != 'UNKNOWN' and gesture != self.last_gesture
IsNewGesture(g) == g # "UNKNOWN" /\ g # last_gesture

CooldownPassed_Always(t) == TRUE

\* main.py:453: current_time - self.last_gesture_time > config.GESTURE_COOLDOWN
CooldownPassed(t) == t - last_gesture_time > GESTURE_COOLDOWN

\* execute_shortcut: the hotkey calls it issues for label g
ExecuteShortcut(g) ==
  IF is_overlay /\ g = "OPEN_PALM" THEN <<>>
  ELSE IF g \in DOMAIN CurrentProfile /\ CurrentProfile[g] # <<>>
       THEN <<CurrentProfile[g]>> ELSE <<>>

\* The last two entries of the history of hotkey times.
LogAction(t, calls) ==
  IF calls = <<>> THEN action_times
  ELSE IF Len(action_times) < 2 THEN Append(action_times, t)
       ELSE <<action_times[2], t>>

ResetLastGesture_Keep == last_gesture

\* main.py:458-459: elif gesture == 'UNKNOWN': self.last_gesture = None
ResetLastGesture == NoGesture

\* _handle_logic(raw, ...) run at time t (mouse control, which is off by
\* default and touches none of this state, left out)
HandleLogic(raw, t) ==
  LET g == FilterGesture(raw) IN
  /\ gesture' = raw
  /\ now' = t
  /\ IF IsNewGesture(g)
     THEN IF CooldownPassed(t)
          THEN /\ hotkeys' = ExecuteShortcut(g)
               /\ last_gesture' = g
               /\ last_gesture_time' = t
               /\ action_times' = LogAction(t, ExecuteShortcut(g))
               /\ locked' = IF ExecuteShortcut(g) # <<>>
                            THEN locked \cup {g} ELSE locked
          ELSE /\ hotkeys' = <<>>
               /\ UNCHANGED <<last_gesture, last_gesture_time, action_times, locked>>
     ELSE /\ hotkeys' = <<>>
          /\ last_gesture' = IF g = "UNKNOWN" THEN ResetLastGesture ELSE last_gesture
          /\ locked' = IF g = "UNKNOWN" THEN {} ELSE locked
          /\ UNCHANGED <<last_gesture_time, action_times>>
  /\ UNCHANGED <<current_profile_name, is_overlay, window_title>>

\* update(): one consumer cycle that found a result in the channel and is
\* not a 30th call; the result's label and the time of the cycle are inputs.
\* The cycle ends by scheduling the next one (line 400).
Update ==
  \E raw \in GestureLabels, dt \in 1..MaxStep :
    /\ update_scheduled
    /\ now + dt <= MaxTime
    /\ HandleLogic(raw, now + dt)
    /\ update_scheduled' = TRUE

\* get_active_window_title(): the titles the foreground window has in this
\* model, as sequences of characters ("" when the call fails)
WindowTitles ==
  {<<>>,
   <<"D", "e", "c", "k", " ", "-", " ", "P", "o", "w", "e", "r", "P", "o", "i", "n", "t">>,
   <<"G", "o", "o", "g", "l", "e", " ", "C", "h", "r", "o", "m", "e">>,
   <<"M", "y", " ", "D", "o", "c", " ", "-", " ", "W", "o", "r", "d">>}

\* window_title before _update_app_state was called for the first time
NoTitle == "unread"

\* _update_app_state as every 30th call of update() runs it (line 394-396),
\* after the part of update() that is inside the try. config has no attribute
\* WINDOW_PROFILE_MAP, so line 468 raises AttributeError: the profile is not
\* assigned, the overlay is not forced (line 480-481 is not reached), and the
\* exception leaves update() before line 400 schedules the next call.
UpdateAppState ==
  \E title \in WindowTitles :
    /\ update_scheduled
    /\ window_title' = title
    /\ update_scheduled' = FALSE
    /\ UNCHANGED <<last_gesture, last_gesture_time, current_profile_name,
                   is_overlay, now, gesture, hotkeys, action_times, locked>>

\* ui_manager.enter_overlay_mode (start() schedules it, the start button)
EnterOverlayMode ==
  /\ ~is_overlay
  /\ is_overlay' = TRUE
  /\ UNCHANGED <<last_gesture, last_gesture_time, current_profile_name, now,
                 gesture, hotkeys, action_times, locked, window_title,
                 update_scheduled>>

\* ui_manager.exit_overlay_mode (the control bar's button, _close_preview)
ExitOverlayMode ==
  /\ is_overlay
  /\ is_overlay' = FALSE
  /\ UNCHANGED <<last_gesture, last_gesture_time, current_profile_name, now,
                 gesture, hotkeys, action_times, locked, window_title,
                 update_scheduled>>

(* --------------------- VisionThread.run (worker) ---------------------- *)

\* run(), line 24-27: cv2.VideoCapture(...); a device that does not open is
\* logged and run() returns (through the finally clause); the constructor
\* may also raise, with self.cap still None. (main.py's copy of VisionThread
\* has the same loop, handlers and finally clause.)
WorkerOpen ==
  /\ wpc = "open"
  /\ \/ /\ cap' = "open"
        /\ wpc' = "init"
        /\ UNCHANGED <<log, exc>>
     \/ /\ cap' = "failed"
        /\ log' = log \cup {"Failed to open camera"}
        /\ wpc' = "finally"
        /\ UNCHANGED exc
     \/ /\ exc' = "init"
        /\ wpc' = "except"
        /\ UNCHANGED <<cap, log>>
  /\ UNCHANGED <<stop_event, gesture_processor, frame_skip_counter>>
  /\ UNCHANGED <<queueVars, mainVars, busVars>>

\* run(), line 29-51: camera properties, lazy import, GestureProcessor(...);
\* the import or the constructor may raise.
WorkerInit ==
  /\ wpc = "init"
  /\ \/ /\ gesture_processor' = "created"
        /\ wpc' = "loop"
        /\ UNCHANGED exc
     \/ /\ exc' = "init"
        /\ wpc' = "except"
        /\ UNCHANGED gesture_processor
  /\ UNCHANGED <<stop_event, cap, frame_skip_counter, log>>
  /\ UNCHANGED <<queueVars, mainVars, busVars>>

\* line 53: while not self.stop_event.is_set()
WorkerLoopTest ==
  /\ wpc = "loop"
  /\ wpc' = IF stop_event THEN "finally" ELSE "read"
  /\ UNCHANGED <<stop_event, cap, gesture_processor, frame_skip_counter, exc, log>>
  /\ UNCHANGED <<queueVars, mainVars, busVars>>

WorkerRead_RetryWithoutTest ==
  /\ wpc = "read"
  /\ \/ /\ published < MaxFrames
        /\ wpc' = "skip"
     \/ wpc' = "read"
  /\ UNCHANGED <<stop_event, cap, gesture_processor, frame_skip_counter, exc, log>>
  /\ UNCHANGED <<queueVars, mainVars, busVars>>

\* line 54-57: ret, frame = self.cap.read(); a failed read sleeps and
\* continues with the loop test. The camera delivers MaxFrames frames that
\* get published; after that every read fails.
WorkerRead ==
  /\ wpc = "read"
  /\ \/ /\ published < MaxFrames
        /\ wpc' = "skip"
     \/ wpc' = "loop"
  /\ UNCHANGED <<stop_event, cap, gesture_processor, frame_skip_counter, exc, log>>
  /\ UNCHANGED <<queueVars, mainVars, busVars>>

\* line 60-64: with a camera faster than 31 fps every other frame is skipped
WorkerFrameSkip ==
  /\ wpc = "skip"
  /\ \E fps_over_31 \in BOOLEAN :
       IF fps_over_31
       THEN /\ frame_skip_counter' = (frame_skip_counter + 1) % 2
            /\ wpc' = IF frame_skip_counter' # 0 THEN "loop" ELSE "process"
       ELSE /\ wpc' = "process"
            /\ UNCHANGED frame_skip_counter
  /\ UNCHANGED <<stop_event, cap, gesture_processor, exc, log>>
  /\ UNCHANGED <<queueVars, mainVars, busVars>>

\* line 66-99: process_frame on the frame. It returns, raises ValueError
\* (handled at line 94) or raises another exception, which leaves the loop
\* for the handler at line 109.
WorkerProcess ==
  /\ wpc = "process"
  /\ \/ /\ wpc' = "full"
        /\ UNCHANGED exc
     \/ /\ wpc' = "fallback"
        /\ UNCHANGED exc
     \/ /\ wpc' = "except"
        /\ exc' = "frame"
  /\ UNCHANGED <<stop_event, cap, gesture_processor, frame_skip_counter, log>>
  /\ UNCHANGED <<queueVars, mainVars, busVars>>

\* line 94-96: the fallback calls process_frame again and unpacks three
\* values; process_frame returns four (gesture_engine.py:217), so the call or
\* the unpacking raises inside the handler and leaves the loop.
WorkerFallback ==
  /\ wpc = "fallback"
  /\ wpc' = "except"
  /\ exc' = "frame"
  /\ UNCHANGED <<stop_event, cap, gesture_processor, frame_skip_counter, log>>
  /\ UNCHANGED <<queueVars, mainVars, busVars>>

WorkerFull_NoCheck ==
  /\ wpc = "full"
  /\ wpc' = "put"
  /\ UNCHANGED <<stop_event, cap, gesture_processor, frame_skip_counter, exc, log>>
  /\ UNCHANGED <<queueVars, mainVars, busVars>>

\* line 101: if self.result_queue.full()
WorkerFull ==
  /\ wpc = "full"
  /\ wpc' = IF Len(result_queue) >= QUEUE_MAXSIZE THEN "discard" ELSE "put"
  /\ UNCHANGED <<stop_event, cap, gesture_processor, frame_skip_counter, exc, log>>
  /\ UNCHANGED <<queueVars, mainVars, busVars>>

\* line 102-103: try: self.result_queue.get_nowait() except queue.Empty: pass
WorkerDiscard ==
  /\ wpc = "discard"
  /\ IF result_queue # <<>>
     THEN /\ dropped' = Head(result_queue)
          /\ result_queue' = Tail(result_queue)
     ELSE UNCHANGED <<dropped, result_queue>>
  /\ wpc' = "put"
  /\ UNCHANGED <<stop_event, cap, gesture_processor, frame_skip_counter, exc, log>>
  /\ UNCHANGED <<published, mainVars, busVars>>

\* line 105: self.result_queue.put(...), which blocks while the queue is full
WorkerPut ==
  /\ wpc = "put"
  /\ Len(result_queue) < QUEUE_MAXSIZE
  /\ result_queue' = Append(result_queue, published + 1)
  /\ published' = published + 1
  /\ wpc' = "sleep"
  /\ UNCHANGED <<stop_event, cap, gesture_processor, frame_skip_counter, exc, log>>
  /\ UNCHANGED <<dropped, mainVars, busVars>>

\* line 107: time.sleep(0.001), then the next iteration
WorkerSleep ==
  /\ wpc = "sleep"
  /\ wpc' = "loop"
  /\ dropped' = 0
  /\ UNCHANGED <<stop_event, cap, gesture_processor, frame_skip_counter, exc, log>>
  /\ UNCHANGED <<result_queue, published, mainVars, busVars>>

\* line 109-110: except Exception as e: logging.error(...)
WorkerExcept ==
  /\ wpc = "except"
  /\ log' = log \cup {"VisionThread Error"}
  /\ wpc' = "finally"
  /\ UNCHANGED <<stop_event, cap, gesture_processor, frame_skip_counter, exc>>
  /\ UNCHANGED <<queueVars, mainVars, busVars>>

WorkerFinally_OnlyCap ==
  /\ wpc = "finally"
  /\ cap' = IF cap # "none" THEN "released" ELSE cap
  /\ wpc' = "terminated"
  /\ UNCHANGED <<stop_event, gesture_processor, frame_skip_counter, exc, log>>
  /\ UNCHANGED <<queueVars, mainVars, busVars>>

\* line 111-113: finally: release the capture, close the gesture processor
WorkerFinally ==
  /\ wpc = "finally"
  /\ cap' = IF cap # "none" THEN "released" ELSE cap
  /\ gesture_processor' = IF gesture_processor # "none" THEN "closed"
                          ELSE gesture_processor
  /\ wpc' = "terminated"
  /\ UNCHANGED <<stop_event, frame_skip_counter, exc, log>>
  /\ UNCHANGED <<queueVars, mainVars, busVars>>

\* threading.Thread.is_alive()
IsAlive == wpc \notin {"unstarted", "terminated"}

WorkerStep ==
  \/ WorkerOpen
  \/ WorkerInit
  \/ WorkerLoopTest
  \/ WorkerRead
  \/ WorkerFrameSkip
  \/ WorkerProcess
  \/ WorkerFallback
  \/ WorkerFull
  \/ WorkerDiscard
  \/ WorkerPut
  \/ WorkerSleep
  \/ WorkerExcept
  \/ WorkerFinally

(* ------------------ CameraManager and the main thread ----------------- *)

\* start_camera, line 169-180, when it starts a worker: a fresh queue, a new
\* VisionThread, "Starting Engine..." published, two timers armed. (While a
\* worker is alive start_camera returns at line 171 and changes nothing. This
\* specification follows one worker at a time: a worker that outlived join()
\* is followed to its end before the next one is started.)
StartCamera ==
  /\ mpc = "idle"
  /\ ~IsAlive
  /\ sessions < MaxSessions
  /\ sessions' = sessions + 1
  /\ result_queue' = <<>>
  /\ published' = 0
  /\ dropped' = 0
  /\ wpc' = "open"
  /\ stop_event' = FALSE
  /\ cap' = "none"
  /\ gesture_processor' = "none"
  /\ frame_skip_counter' = 0
  /\ exc' = "none"
  /\ log' = {}
  /\ vision_thread' = TRUE
  /\ status' = "Status: Starting Engine..."
  /\ timers' = [running |-> timers.running + 1, started |-> timers.started + 1]
  /\ UNCHANGED <<mpc, latest, join_wait, is_camera_running>>

\* line 179: threading.Timer(0.1, publish("camera:status", "Status: Running"))
TimerRunning ==
  /\ timers.running > 0
  /\ timers' = [timers EXCEPT !.running = @ - 1]
  /\ status' = "Status: Running"
  /\ UNCHANGED <<workerVars, queueVars, mainVars, is_camera_running>>

\* line 180: threading.Timer(0.1, publish("camera:started")), received by
\* AppUIManager.on_camera_started
TimerStarted ==
  /\ timers.started > 0
  /\ timers' = [timers EXCEPT !.started = @ - 1]
  /\ is_camera_running' = TRUE
  /\ UNCHANGED <<workerVars, queueVars, mainVars, status>>

\* stop_camera, line 183-185: set the stop flag and enter join(timeout=2.0)
StopCameraBegin ==
  /\ mpc = "idle"
  /\ vision_thread
  /\ stop_event' = TRUE
  /\ mpc' = "joining"
  /\ join_wait' = 0
  /\ UNCHANGED <<wpc, cap, gesture_processor, frame_skip_counter, exc, log>>
  /\ UNCHANGED <<queueVars, latest, vision_thread, sessions, busVars>>

\* one second passes inside join(timeout=2.0) while the worker is alive
JoinTick ==
  /\ mpc = "joining"
  /\ IsAlive
  /\ join_wait < JOIN_TIMEOUT
  /\ join_wait' = join_wait + 1
  /\ UNCHANGED <<workerVars, queueVars, mpc, latest, vision_thread, sessions, busVars>>

\* join() returns (the worker ended or the timeout elapsed); stop_camera,
\* line 186-193: forget the thread, clear the queue, publish "Stopped" and
\* "camera:stopped" (AppUIManager.on_camera_stopped)
JoinReturn ==
  /\ mpc = "joining"
  /\ ~IsAlive \/ join_wait >= JOIN_TIMEOUT
  /\ vision_thread' = FALSE
  /\ result_queue' = <<>>
  /\ status' = "Status: Stopped"
  /\ is_camera_running' = FALSE
  /\ mpc' = "idle"
  /\ UNCHANGED <<workerVars, published, dropped, latest, join_wait, sessions, timers>>

\* get_latest_frame, line 211-214: None without a thread, else start draining
GetLatestFrame ==
  /\ mpc = "idle"
  /\ latest' = 0
  /\ mpc' = IF vision_thread THEN "drain" ELSE "idle"
  /\ UNCHANGED <<workerVars, queueVars, vision_thread, join_wait, sessions, busVars>>

\* line 216-217: latest = self.result_queue.get_nowait()
DrainGet ==
  /\ mpc = "drain"
  /\ result_queue # <<>>
  /\ latest' = Head(result_queue)
  /\ result_queue' = Tail(result_queue)
  /\ UNCHANGED <<workerVars, published, dropped, mpc, vision_thread, join_wait,
                 sessions, busVars>>

\* line 218-220: queue.Empty ends the loop; latest is returned
DrainEmpty ==
  /\ mpc = "drain"
  /\ result_queue = <<>>
  /\ mpc' = "idle"
  /\ UNCHANGED <<workerVars, queueVars, latest, vision_thread, join_wait,
                 sessions, busVars>>

(* ------------- CameraManager lifecycle with several threads ----------- *)

\* the camera indices detect_cameras found
CameraIndices == {0, 1}

\* the threads that have been started and have not finished run()
AliveThreads == {t \in DOMAIN threads : threads[t] = "alive"}

\* self.vision_thread and self.vision_thread.is_alive(), line 170
TrackedAlive == cm_thread # 0 /\ threads[cm_thread] = "alive"

\* start_camera, line 173-180, run by the main thread or by the timer thread:
\* a new VisionThread is created, stored and started, "Starting Engine..." is
\* published and the two 0.1 s timers are armed
CreateThread ==
  LET t == Len(threads) + 1 IN
  /\ threads' = Append(threads, "alive")
  /\ cm_thread' = t
  /\ events' = [events EXCEPT !.status = "Status: Starting Engine..."]
  /\ notify_timers' = [running |-> notify_timers.running + 1,
                        started |-> notify_timers.started + 1]

\* start_camera called on the main thread (cmd:start_camera), line 170-171:
\* it returns when the stored thread is alive, else goes on to line 173
StartCameraCheck ==
  /\ cm_pc = "idle"
  /\ Len(threads) < MaxThreads
  /\ cm_pc' = IF TrackedAlive THEN "idle" ELSE "create"
  /\ UNCHANGED <<threads, stop_events, cm_thread, cm_joined, cm_wait, cm_restart,
                 timer_pc, restart_timers, notify_timers, camera_index, events>>

\* start_camera on the main thread, line 173-180
StartCameraCreate ==
  /\ cm_pc = "create"
  /\ Len(threads) < MaxThreads
  /\ CreateThread
  /\ cm_pc' = "idle"
  /\ UNCHANGED <<stop_events, cm_joined, cm_wait, cm_restart, timer_pc,
                 restart_timers, camera_index>>

\* Timer(0.5, self.start_camera) fires: start_camera on the timer thread,
\* line 170-171
TimerStartCheck ==
  /\ restart_timers > 0
  /\ timer_pc = "idle"
  /\ restart_timers' = restart_timers - 1
  /\ timer_pc' = IF TrackedAlive THEN "idle" ELSE "create"
  /\ UNCHANGED <<threads, stop_events, cm_thread, cm_pc, cm_joined, cm_wait,
                 cm_restart, notify_timers, camera_index, events>>

\* start_camera on the timer thread, line 173-180
TimerStartCreate ==
  /\ timer_pc = "create"
  /\ Len(threads) < MaxThreads
  /\ CreateThread
  /\ timer_pc' = "idle"
  /\ UNCHANGED <<stop_events, cm_pc, cm_joined, cm_wait, cm_restart,
                 restart_timers, camera_index>>

\* stop_camera, line 183-185: with a stored thread, set its stop flag and
\* enter join(timeout=2.0); restart tells whether change_camera is the caller
StopCameraEnter(restart) ==
  /\ stop_events' = stop_events \cup {cm_thread}
  /\ cm_joined' = cm_thread
  /\ cm_wait' = 0
  /\ cm_restart' = restart
  /\ cm_pc' = "joining"

\* stop_camera called on the main thread (cmd:stop_camera, app:quit); without
\* a stored thread it does nothing
StopCamera ==
  /\ cm_pc = "idle"
  /\ cm_thread # 0
  /\ StopCameraEnter(FALSE)
  /\ UNCHANGED <<threads, cm_thread, timer_pc, restart_timers, notify_timers,
                 camera_index, events>>

\* change_camera(index), line 196-207, for the camera index new_idx the
\* selection stands for: nothing for the current camera while a thread is
\* stored; else the index is set and, with a stored thread, stop_camera runs
ChangeCamera ==
  \E new_idx \in CameraIndices :
    /\ cm_pc = "idle"
    /\ ~(new_idx = camera_index /\ cm_thread # 0)
    /\ camera_index' = new_idx
    /\ IF cm_thread # 0
       THEN StopCameraEnter(TRUE)
       ELSE UNCHANGED <<stop_events, cm_joined, cm_wait, cm_restart, cm_pc>>
    /\ UNCHANGED <<threads, cm_thread, timer_pc, restart_timers, notify_timers,
                   events>>

\* one second passes inside join(timeout=2.0) while the joined thread lives
LifeJoinTick ==
  /\ cm_pc = "joining"
  /\ threads[cm_joined] = "alive"
  /\ cm_wait < JOIN_TIMEOUT
  /\ cm_wait' = cm_wait + 1
  /\ UNCHANGED <<threads, stop_events, cm_thread, cm_pc, cm_joined, cm_restart,
                 timer_pc, restart_timers, notify_timers, camera_index, events>>

\* join() returns because the thread ended or the timeout elapsed; stop_camera,
\* line 186-193: the stored thread is forgotten and "Stopped" is published;
\* change_camera, line 207, then arms the restart timer
LifeJoinReturn ==
  /\ cm_pc = "joining"
  /\ threads[cm_joined] = "exited" \/ cm_wait >= JOIN_TIMEOUT
  /\ cm_thread' = 0
  /\ events' = [status |-> "Status: Stopped", event |-> "camera:stopped"]
  /\ restart_timers' = IF cm_restart THEN restart_timers + 1 ELSE restart_timers
  /\ cm_pc' = "idle"
  /\ UNCHANGED <<threads, stop_events, cm_joined, cm_wait, cm_restart, timer_pc,
                 notify_timers, camera_index>>

\* VisionThread.run ends: the loop saw the stop flag, the camera did not
\* open, or an exception left the loop
ThreadExit ==
  \E t \in AliveThreads :
    /\ threads' = [threads EXCEPT ![t] = "exited"]
    /\ UNCHANGED <<stop_events, cm_thread, cm_pc, cm_joined, cm_wait, cm_restart,
                   timer_pc, restart_timers, notify_timers, camera_index, events>>

\* line 179: the timer publishes "Status: Running"
NotifyRunning ==
  /\ notify_timers.running > 0
  /\ notify_timers' = [notify_timers EXCEPT !.running = @ - 1]
  /\ events' = [events EXCEPT !.status = "Status: Running"]
  /\ UNCHANGED <<threads, stop_events, cm_thread, cm_pc, cm_joined, cm_wait,
                 cm_restart, timer_pc, restart_timers, camera_index>>

\* line 180: the timer publishes "camera:started"
NotifyStarted ==
  /\ notify_timers.started > 0
  /\ notify_timers' = [notify_timers EXCEPT !.started = @ - 1]
  /\ events' = [events EXCEPT !.event = "camera:started"]
  /\ UNCHANGED <<threads, stop_events, cm_thread, cm_pc, cm_joined, cm_wait,
                 cm_restart, timer_pc, restart_timers, camera_index>>

\* CameraManager.__init__, line 122-134
InitLifecycle ==
  /\ threads = <<>>
  /\ stop_events = {}
  /\ cm_thread = 0
  /\ cm_pc = "idle"
  /\ cm_joined = 0
  /\ cm_wait = 0
  /\ cm_restart = FALSE
  /\ timer_pc = "idle"
  /\ restart_timers = 0
  /\ notify_timers = [running |-> 0, started |-> 0]
  /\ camera_index = 0
  /\ events = [status |-> "Idle", event |-> "none"]

(* ------------- VisionThread.run: auto low light (line 76-85) ---------- *)

\* the period of the luminance check, line 78
LOW_LIGHT_PERIOD == 30
\* line 83: the flag turns on below this average luminance
LOW_LIGHT_ON_BELOW == 80
\* line 84: the flag turns off above this average luminance
LOW_LIGHT_OFF_ABOVE == 100

\* the average luminances of the frames of this model
Luminances == {70, 80, 90, 100, 110}

LowLightNext_OneThreshold(flag, lum) == lum < LOW_LIGHT_OFF_ABOVE

\* line 83-84: the flag after a check that measured lum
LowLightNext(flag, lum) ==
  IF ~flag /\ lum < LOW_LIGHT_ON_BELOW THEN TRUE
  ELSE IF flag /\ lum > LOW_LIGHT_OFF_ABOVE THEN FALSE
  ELSE flag

\* line 77-85 for one frame that is processed; ok: resize and cvtColor did not
\* raise (an exception is swallowed at line 85)
LowLightFrame ==
  \E lum \in Luminances, ok \in BOOLEAN :
    /\ frame_counter < MaxLightFrames
    /\ frame_counter' = frame_counter + 1
    /\ avg' = lum
    /\ low_light_mode' = IF frame_counter' % LOW_LIGHT_PERIOD = 0 /\ ok
                          THEN LowLightNext(low_light_mode, lum)
                          ELSE low_light_mode
    /\ toggles' = IF low_light_mode' # low_light_mode THEN toggles + 1 ELSE toggles

\* VisionThread.__init__, line 19; config.LOW_LIGHT_MODE = True
InitLowLight ==
  /\ frame_counter = 0
  /\ low_light_mode = TRUE
  /\ avg = 0
  /\ toggles = 0

(* ------------------- SwipeDetector (swipe_engine.py) ------------------ *)

\* deque(maxlen=history_length): config has no SWIPE_HISTORY_LENGTH, so 10
SWIPE_HISTORY_LENGTH == 10
\* if len(self.history) < 5: return 'UNKNOWN'
SWIPE_MIN_SAMPLES == 5
\* self.cooldown = 0.3 s, in ticks
SWIPE_COOLDOWN == 6
\* if duration < 0.05: return 'UNKNOWN'; 0.05 s, in ticks
SWIPE_MIN_DURATION == 1
\* min_velocity=0.4 per second, in units per tick
SWIPE_MIN_VELOCITY == 2
\* config.SWIPE_MIN_DISTANCE_LEFT = 0.02
SWIPE_MIN_DISTANCE_LEFT == 2
\* config.SWIPE_MIN_DISTANCE_RIGHT = 0.02
SWIPE_MIN_DISTANCE_RIGHT == 2
\* self.MAX_SLOPE = 1.0
MAX_SLOPE == 1
\* self.MAX_MSE = 0.02, in square units
MAX_MSE == 200
\* self.MAX_Y_VARIANCE = 0.1 (compared with the standard deviation), in units
MAX_Y_VARIANCE == 10

RECURSIVE SeqSum(_)
\* sum of a sequence of numbers
SeqSum(s) == IF s = <<>> THEN 0 ELSE Head(s) + SeqSum(Tail(s))

\* abs()
Abs(a) == IF a < 0 THEN -a ELSE a

DequeAppend_NoEvict(d, e, maxlen) == Append(d, e)

\* collections.deque(maxlen=n).append(e): a full deque drops its oldest entry
DequeAppend(d, e, maxlen) ==
  IF Len(d) >= maxlen THEN Append(Tail(d), e) ELSE Append(d, e)

\* data[:, 0], data[:, 1]
Column(h, field) == [i \in 1..Len(h) |-> h[i][field]]

\* np.std(ys) > limit, compared as variances: n*sum(y^2) - sum(y)^2 is n^2
\* times the variance
StdExceeds(ys, limit) ==
  LET n == Len(ys)
      sy == SeqSum(ys)
      syy == SeqSum([i \in 1..n |-> ys[i] * ys[i]])
  IN n * syy - sy * sy > limit * limit * n * n

\* np.polyfit(xs, ys, 1): the least-squares line. The slope is sxy / sxx with
\* sxx = n*sum(x^2) - sum(x)^2 and sxy = n*sum(x*y) - sum(x)*sum(y); syy is
\* the same sum for y (n^2 times the variance of y).
Polyfit(xs, ys) ==
  LET n == Len(xs)
      sx == SeqSum(xs)
      sy == SeqSum(ys)
  IN [sxx |-> n * SeqSum([i \in 1..n |-> xs[i] * xs[i]]) - sx * sx,
      sxy |-> n * SeqSum([i \in 1..n |-> xs[i] * ys[i]]) - sx * sy,
      syy |-> n * SeqSum([i \in 1..n |-> ys[i] * ys[i]]) - sy * sy,
      n |-> n]

\* abs(slope) > self.MAX_SLOPE
SlopeExceeds(fit) == Abs(fit.sxy) > MAX_SLOPE * fit.sxx

\* np.mean((ys - (slope * xs + intercept))**2) > self.MAX_MSE: the mean
\* squared residual of the fitted line is (syy - sxy^2/sxx) / n^2
MseExceeds(fit) ==
  fit.syy * fit.sxx - fit.sxy * fit.sxy > MAX_MSE * fit.n * fit.n * fit.sxx

SwipeClassify_NoCooldown(h, timestamp) ==
  LET n == Len(h)
      dx == h[n].x - h[1].x
      duration == h[n].t - h[1].t
      fit == Polyfit(Column(h, "x"), Column(h, "y"))
  IN IF n < SWIPE_MIN_SAMPLES THEN "UNKNOWN"
     ELSE IF duration < SWIPE_MIN_DURATION THEN "UNKNOWN"
     ELSE IF Abs(dx) < SWIPE_MIN_VELOCITY * duration THEN "UNKNOWN"
     ELSE IF Abs(dx) < (IF dx > 0 THEN SWIPE_MIN_DISTANCE_RIGHT
                        ELSE SWIPE_MIN_DISTANCE_LEFT) THEN "UNKNOWN"
     ELSE IF StdExceeds(Column(h, "y"), MAX_Y_VARIANCE) THEN "UNKNOWN"
     ELSE IF fit.sxx = 0 \/ SlopeExceeds(fit) THEN "UNKNOWN"
     ELSE IF MseExceeds(fit) THEN "UNKNOWN"
     ELSE IF dx > 0 THEN "SWIPE_RIGHT" ELSE "SWIPE_LEFT"

SwipeClassify_NoSlopeCheck(h, timestamp) ==
  LET n == Len(h)
      dx == h[n].x - h[1].x
      duration == h[n].t - h[1].t
  IN IF n < SWIPE_MIN_SAMPLES THEN "UNKNOWN"
     ELSE IF timestamp - last_swipe_time < SWIPE_COOLDOWN THEN "UNKNOWN"
     ELSE IF duration < SWIPE_MIN_DURATION THEN "UNKNOWN"
     ELSE IF Abs(dx) < SWIPE_MIN_VELOCITY * duration THEN "UNKNOWN"
     ELSE IF Abs(dx) < (IF dx > 0 THEN SWIPE_MIN_DISTANCE_RIGHT
                        ELSE SWIPE_MIN_DISTANCE_LEFT) THEN "UNKNOWN"
     ELSE IF StdExceeds(Column(h, "y"), MAX_Y_VARIANCE) THEN "UNKNOWN"
     ELSE IF dx > 0 THEN "SWIPE_RIGHT" ELSE "SWIPE_LEFT"

\* process, line 40-113, on the history h that holds the new sample: the
\* label it returns. velocity_x < min_velocity is dist_x < min_velocity *
\* duration (duration > 0 there); a line fit that fails returns UNKNOWN.
SwipeClassify(h, timestamp) ==
  LET n == Len(h)
      dx == h[n].x - h[1].x
      duration == h[n].t - h[1].t
      fit == Polyfit(Column(h, "x"), Column(h, "y"))
  IN IF n < SWIPE_MIN_SAMPLES THEN "UNKNOWN"
     ELSE IF timestamp - last_swipe_time < SWIPE_COOLDOWN THEN "UNKNOWN"
     ELSE IF duration < SWIPE_MIN_DURATION THEN "UNKNOWN"
     ELSE IF Abs(dx) < SWIPE_MIN_VELOCITY * duration THEN "UNKNOWN"
     ELSE IF Abs(dx) < (IF dx > 0 THEN SWIPE_MIN_DISTANCE_RIGHT
                        ELSE SWIPE_MIN_DISTANCE_LEFT) THEN "UNKNOWN"
     ELSE IF StdExceeds(Column(h, "y"), MAX_Y_VARIANCE) THEN "UNKNOWN"
     ELSE IF fit.sxx = 0 \/ SlopeExceeds(fit) THEN "UNKNOWN"
     ELSE IF MseExceeds(fit) THEN "UNKNOWN"
     ELSE IF dx > 0 THEN "SWIPE_RIGHT" ELSE "SWIPE_LEFT"

SwipeTrigger_KeepHistory(h, timestamp, label) ==
  /\ history' = h
  /\ last_swipe_time' = IF label # "UNKNOWN" THEN timestamp ELSE last_swipe_time

\* line 107-108 on a trigger: self.history.clear(); self.last_swipe_time =
\* timestamp. Every other return leaves the history with the new sample.
SwipeTrigger(h, timestamp, label) ==
  /\ history' = IF label # "UNKNOWN" THEN <<>> ELSE h
  /\ last_swipe_time' = IF label # "UNKNOWN" THEN timestamp ELSE last_swipe_time

\* SwipeDetector.process(centroid, timestamp)
SwipeProcess(centroid, timestamp) ==
  LET h == DequeAppend(history,
                       [x |-> centroid[1], y |-> centroid[2], t |-> timestamp],
                       SWIPE_HISTORY_LENGTH)
      label == SwipeClassify(h, timestamp)
  IN /\ trajectory' = h
     /\ swipe_gesture' = label
     /\ SwipeTrigger(h, timestamp, label)

\* The centroids fed to the detector: left and right at one height, and right
\* at a second height.
SwipeCentroids == {<<40, 70>>, <<51, 70>>, <<51, 92>>}

\* One call of process per frame period (one tick).
SwipeCall ==
  \E c \in SwipeCentroids :
    /\ wnow < MaxSwipeTime
    /\ wnow' = wnow + 1
    /\ SwipeProcess(c, wnow + 1)

\* SwipeDetector.__init__, line 13-18; the clock of the first frame is far
\* past the swipe cooldown.
InitSwipe ==
  /\ history = <<>>
  /\ last_swipe_time = 0
  /\ swipe_gesture = "UNKNOWN"
  /\ trajectory = <<>>
  /\ wnow = SWIPE_COOLDOWN

(* ---------------- position smoothers (position_smoother.py) ----------- *)
(* Filter positions are fixed-point numbers, 100 per coordinate unit (1e-4  *)
(* of the image size); velocities are positions per second; covariances,   *)
(* Q and R are counted in thousandths.                                     *)

\* LandmarkSmoother(num_landmarks=21, ...)
NUM_LANDMARKS == 21

\* PositionSmoother2D.__init__: state zero, P = eye(4), not initialized; r is
\* the diagonal of R. (F couples each position only with its own velocity
\* and H reads the positions, so P keeps the same 2x2 block p11, p12, p22
\* for both axes and no term across the axes.)
SmootherNew(r) ==
  [initialized |-> FALSE, x |-> 0, y |-> 0, vx |-> 0, vy |-> 0,
   p11 |-> 1000, p12 |-> 0, p22 |-> 1000, r |-> r]

\* PositionSmoother2D.reset: state, P and the flag (R is left as it is)
SmootherReset(f) ==
  [f EXCEPT !.x = 0, !.y = 0, !.vx = 0, !.vy = 0,
            !.p11 = 1000, !.p12 = 0, !.p22 = 1000, !.initialized = FALSE]

\* PositionSmoother2D.update(z) with Q = diag(q, q, 2q, 2q): the first
\* measurement sets the position and a zero velocity; later ones run the
\* predict step (dt = 1/30 s) and the correction with gain K = P H' / S.
SmootherUpdate(f, z, q) ==
  IF ~f.initialized
  THEN [f EXCEPT !.x = z[1], !.y = z[2], !.vx = 0, !.vy = 0,
                 !.initialized = TRUE]
  ELSE LET px == f.x + f.vx \div 30
           py == f.y + f.vy \div 30
           a11 == f.p11 + (2 * f.p12) \div 30 + f.p22 \div 900 + q
           a12 == f.p12 + f.p22 \div 30
           a22 == f.p22 + 2 * q
           s == a11 + f.r
           rx == z[1] - px
           ry == z[2] - py
       IN [f EXCEPT !.x = px + (a11 * rx) \div s,
                    !.y = py + (a11 * ry) \div s,
                    !.vx = f.vx + (a12 * rx) \div s,
                    !.vy = f.vy + (a12 * ry) \div s,
                    !.p11 = a11 - (a11 * a11) \div s,
                    !.p12 = a12 - (a11 * a12) \div s,
                    !.p22 = a22 - (a12 * a12) \div s]

\* the position update() returns: state[0], state[1]
SmootherPosition(f) == <<f.x, f.y>>

\* LandmarkSmoother.__init__: smoothing_factor=0.005, responsiveness=0.05
LandmarkSmootherNew == [i \in 0..(NUM_LANDMARKS - 1) |-> SmootherNew(50)]

\* LandmarkSmoother.reset
LandmarkSmootherReset(ls) == [i \in DOMAIN ls |-> SmootherReset(ls[i])]

LandmarkSmootherUpdate_NextLandmark(ls, lms) ==
  [i \in DOMAIN ls |-> IF i \in DOMAIN lms
                       THEN SmootherUpdate(ls[i],
                              <<100 * lms[(i + 1) % NUM_LANDMARKS][1],
                                100 * lms[(i + 1) % NUM_LANDMARKS][2]>>, 5)
                       ELSE ls[i]]

\* LandmarkSmoother.update(landmarks): filter i takes landmark i
LandmarkSmootherUpdate(ls, lms) ==
  [i \in DOMAIN ls |-> IF i \in DOMAIN lms
                       THEN SmootherUpdate(ls[i], <<100 * lms[i][1], 100 * lms[i][2]>>, 5)
                       ELSE ls[i]]

\* LandmarkSmoother.get_smoothed_position(landmark_idx, raw_x, raw_y): the
\* filters after the call and the position it returns (in filter units)
GetSmoothedPosition(ls, landmark_idx, raw) ==
  IF 0 <= landmark_idx /\ landmark_idx < NUM_LANDMARKS
  THEN LET f == SmootherUpdate(ls[landmark_idx], <<100 * raw[1], 100 * raw[2]>>, 5)
       IN [smoothers |-> [ls EXCEPT ![landmark_idx] = f],
           result |-> SmootherPosition(f)]
  ELSE [smoothers |-> ls, result |-> <<100 * raw[1], 100 * raw[2]>>]

\* The landmark lists given to update in the landmark specification: all
\* points at one place; the same with the index tip (8) elsewhere; and a list
\* of 22 points at a third place.
LandmarkLists ==
  {[i \in 0..(NUM_LANDMARKS - 1) |-> <<40, 80>>],
   [i \in 0..(NUM_LANDMARKS - 1) |-> IF i = 8 THEN <<50, 70>> ELSE <<40, 80>>],
   [i \in 0..NUM_LANDMARKS |-> <<44, 76>>]}

\* the raw positions and the indices given to get_smoothed_position
RawPositions == {<<40, 80>>, <<50, 70>>}
LandmarkIndices == {-1, 0, 8, NUM_LANDMARKS - 1, NUM_LANDMARKS}

\* one call of LandmarkSmoother.update(landmarks)
LandmarkUpdateCall ==
  \E lms \in LandmarkLists :
    /\ ls_calls < MaxLandmarkCalls
    /\ ls_calls' = ls_calls + 1
    /\ landmark_smoother' = LandmarkSmootherUpdate(landmark_smoother, lms)
    /\ fed' = [i \in DOMAIN fed |-> IF i \in DOMAIN lms THEN Append(fed[i], lms[i])
                                    ELSE fed[i]]
    /\ ls_call' = [op |-> "update", idx |-> 0, raw |-> <<0, 0>>]
    /\ UNCHANGED smoothed

\* one call of LandmarkSmoother.get_smoothed_position(idx, raw_x, raw_y)
GetSmoothedPositionCall ==
  \E idx \in LandmarkIndices, raw \in RawPositions :
    /\ ls_calls < MaxLandmarkCalls
    /\ ls_calls' = ls_calls + 1
    /\ landmark_smoother' = GetSmoothedPosition(landmark_smoother, idx, raw).smoothers
    /\ smoothed' = GetSmoothedPosition(landmark_smoother, idx, raw).result
    /\ fed' = [i \in DOMAIN fed |-> IF i = idx THEN Append(fed[i], raw) ELSE fed[i]]
    /\ ls_call' = [op |-> "get", idx |-> idx, raw |-> raw]

\* no call yet
InitLandmarks ==
  /\ fed = [i \in 0..(NUM_LANDMARKS - 1) |-> <<>>]
  /\ ls_call = [op |-> "none", idx |-> 0, raw |-> <<0, 0>>]
  /\ smoothed = <<>>
  /\ ls_calls = 0

\* OneEuroFilter.__init__ / reset: x_prev = None, dx_prev = 0.0, t_prev = None
EuroNew == [seeded |-> FALSE, x_prev |-> 0, dx_prev |-> 0, t_prev |-> 0]

\* OneEuroFilter._alpha(cutoff, dt) = 1 / (1 + tau / dt) with tau =
\* 1 / (2 pi cutoff), in hundredths; cutoff in hundredths of Hz, dt in thirds
\* of a tick (1/60 s): 2 pi cutoff dt = 628 * cutoff * thirds / 600000
EuroAlpha(cutoff, thirds) ==
  LET w == 628 * cutoff * thirds IN (100 * w) \div (w + 600000)

\* OneEuroFilter.filter(x, t) with min_cutoff=4.0, beta=1.2, d_cutoff=1.0:
\* the first call returns x and seeds the state; a later call low-passes the
\* derivative, derives the cutoff from it and blends x with x_prev. A dt that
\* is not positive counts as 1/60 s.
EuroFilter(e, x, t) ==
  IF ~e.seeded
  THEN [e EXCEPT !.seeded = TRUE, !.x_prev = x, !.t_prev = t]
  ELSE LET thirds == IF t - e.t_prev <= 0 THEN 1 ELSE 3 * (t - e.t_prev)
           dx == ((x - e.x_prev) * 60) \div thirds
           alpha_d == EuroAlpha(100, thirds)
           dx_hat == (alpha_d * dx + (100 - alpha_d) * e.dx_prev) \div 100
           cutoff == 400 + (120 * Abs(dx_hat)) \div 10000
           alpha == EuroAlpha(cutoff, thirds)
       IN [e EXCEPT !.x_prev = (alpha * x + (100 - alpha) * e.x_prev) \div 100,
                    !.dx_prev = dx_hat,
                    !.t_prev = t]

\* PointerSmoother.__init__: base_smoothing=0.02, base_responsiveness=0.08
PointerSmootherNew ==
  [kalman |-> SmootherNew(80), euro_x |-> EuroNew, euro_y |-> EuroNew,
   last_position |-> <<>>, velocity_history |-> <<>>]

PointerSmootherReset_KeepEuro(ps) ==
  [ps EXCEPT !.kalman = SmootherReset(ps.kalman),
             !.last_position = <<>>, !.velocity_history = <<>>]

\* PointerSmoother.reset
PointerSmootherReset(ps) ==
  [ps EXCEPT !.kalman = SmootherReset(ps.kalman),
             !.euro_x = EuroNew, !.euro_y = EuroNew,
             !.last_position = <<>>, !.velocity_history = <<>>]

\* floor of the square root of n, which is at most bound
ISqrt(n, bound) == CHOOSE r \in 0..bound : r * r <= n /\ n < (r + 1) * (r + 1)

\* PointerSmoother.update, line 325-347: the speed of the raw pointer (in
\* thousandths of the image size), the mean of the last two speeds and the
\* measurement noise chosen from it (base_responsiveness * 0.05 .. 1.0)
PointerNoise(ps, x, y) ==
  LET dx == x - ps.last_position[1]
      dy == y - ps.last_position[2]
      speed == ISqrt(100 * (dx * dx + dy * dy), 10 * (Abs(dx) + Abs(dy)))
      vh0 == Append(ps.velocity_history, speed)
      vh == IF Len(vh0) > 2 THEN Tail(vh0) ELSE vh0
      total == SeqSum(vh)
      n == Len(vh)
  IN [velocity_history |-> vh,
      r |-> IF total > 40 * n THEN 4
            ELSE IF total > 20 * n THEN 8
            ELSE IF total > 8 * n THEN 24
            ELSE IF total > 2 * n THEN 48
            ELSE 80]

\* PointerSmoother.update(x, y) at time t: adaptive noise, Kalman stage, then
\* one OneEuroFilter per axis
PointerSmootherUpdate(ps, x, y, t) ==
  LET adapt == IF ps.last_position # <<>> THEN PointerNoise(ps, x, y)
               ELSE [velocity_history |-> ps.velocity_history, r |-> ps.kalman.r]
      k == SmootherUpdate([ps.kalman EXCEPT !.r = adapt.r],
                          <<100 * x, 100 * y>>, 20)
  IN [kalman |-> k,
      euro_x |-> EuroFilter(ps.euro_x, k.x, t),
      euro_y |-> EuroFilter(ps.euro_y, k.y, t),
      last_position |-> <<x, y>>,
      velocity_history |-> adapt.velocity_history]

\* the position PointerSmoother.update returns: fx, fy
PointerPosition(ps) == <<ps.euro_x.x_prev, ps.euro_y.x_prev>>

\* The raw pointer positions of the pointer specification: a place, one a
\* hundredth beside it, and one far from both.
PointerInputs == {<<40, 80>>, <<41, 80>>, <<50, 70>>}

\* PointerSmoother.update(x, y), one tick after the call before; the smoother
\* constructed at the last reset is given the same call
PointerUpdateCall ==
  \E z \in PointerInputs :
    /\ ptr_calls < MaxPointerCalls
    /\ ptr_calls' = ptr_calls + 1
    /\ ptr_time' = ptr_time + 1
    /\ used_smoother' = PointerSmootherUpdate(used_smoother, z[1], z[2], ptr_time')
    /\ fresh_smoother' = IF since_reset = -1 THEN fresh_smoother
                         ELSE PointerSmootherUpdate(fresh_smoother, z[1], z[2],
                                                    ptr_time')
    /\ since_reset' = CASE since_reset = -1 -> -1
                         [] since_reset = 0 -> 1
                         [] OTHER -> 2

\* PointerSmoother.reset(), beside PointerSmoother() for a second smoother
PointerResetCall ==
  /\ ptr_calls < MaxPointerCalls
  /\ ptr_calls' = ptr_calls + 1
  /\ used_smoother' = PointerSmootherReset(used_smoother)
  /\ fresh_smoother' = PointerSmootherNew
  /\ since_reset' = 0
  /\ UNCHANGED ptr_time

\* PointerSmoother.__init__
InitPointer ==
  /\ used_smoother = PointerSmootherNew
  /\ fresh_smoother = PointerSmootherNew
  /\ since_reset = -1
  /\ ptr_time = 0
  /\ ptr_calls = 0

(* ------------- GestureProcessor.process_frame (gesture_engine.py) ----- *)

\* config.MAX_MISSED_FRAMES
MAX_MISSED_FRAMES == 5
\* config.SMOOTHING_BUFFER_SIZE: deque(maxlen=5)
SMOOTHING_BUFFER_SIZE == 5
\* config.GESTURE_CONFIRMATION_FRAMES
GESTURE_CONFIRMATION_FRAMES == 2
\* config.CLICK_THRESHOLD = 0.06, in units
CLICK_THRESHOLD == 6
\* config.SIGN_ROI_COORDS (SIGN_ROI_ENABLED is True), in units
SIGN_ROI_COORDS == [x_min |-> 35, y_min |-> 70, x_max |-> 65, y_max |-> 100]

\* self.landmarks = None
NoLandmarks == <<>>

\* What the detector (self.hands.process) delivers for a frame: no hand, or a
\* hand given by its centroid and by the label _recognize_gesture reads from
\* its finger geometry.
NoHand == [hand |-> FALSE, c |-> <<0, 0>>, shape |-> "UNKNOWN"]

\* hand_landmarks.landmark of a hand with centroid c: the 21 points, placed
\* around c so that wrist (0), index base (5) and pinky base (17) average to c.
HandLandmarks(c) ==
  [i \in 0..(NUM_LANDMARKS - 1) |->
     CASE i = 0 -> <<c[1], c[2] + 6>>
       [] i = 5 -> <<c[1] - 3, c[2] - 3>>
       [] i = 17 -> <<c[1] + 3, c[2] - 3>>
       [] i = 4 -> <<c[1] - 8, c[2]>>
       [] i = 8 -> <<c[1] - 2, c[2] - 10>>
       [] OTHER -> <<c[1], c[2]>>]

\* line 148-154: the centroid of wrist, index base and pinky base
Centroid(lms) ==
  <<(lms[0][1] + lms[5][1] + lms[17][1]) \div 3,
    (lms[0][2] + lms[5][2] + lms[17][2]) \div 3>>

\* line 161-166: roi['x_min'] <= cx <= roi['x_max'] and the same for y
InRoi(c) ==
  /\ SIGN_ROI_COORDS.x_min <= c[1] /\ c[1] <= SIGN_ROI_COORDS.x_max
  /\ SIGN_ROI_COORDS.y_min <= c[2] /\ c[2] <= SIGN_ROI_COORDS.y_max

\* the number of entries of buf equal to l
CountOf(buf, l) == Cardinality({i \in 1..Len(buf) : buf[i] = l})

\* Counter(buf).most_common(1)[0]: the label with the highest count and,
\* among equals, the one that occurs first in the buffer
MostCommon(buf) ==
  LET i == CHOOSE k \in 1..Len(buf) :
             /\ \A j \in 1..Len(buf) : CountOf(buf, buf[j]) <= CountOf(buf, buf[k])
             /\ \A j \in 1..(k - 1) : CountOf(buf, buf[j]) < CountOf(buf, buf[k])
  IN [name |-> buf[i], count |-> CountOf(buf, buf[i])]

Vote_NoAllowlist(buf) ==
  LET mc == MostCommon(buf) IN
  IF mc.count >= GESTURE_CONFIRMATION_FRAMES THEN mc.name ELSE "UNKNOWN"

\* line 190-201: the label the vote over the buffer emits
Vote(buf) ==
  LET mc == MostCommon(buf) IN
  IF mc.count >= GESTURE_CONFIRMATION_FRAMES /\ mc.name \in enabled_signs
  THEN mc.name ELSE "UNKNOWN"

\* line 137-138: the pinch test on the filtered thumb and index tips
IsClicking(filtered) ==
  LET dx == filtered[8][1] - filtered[4][1]
      dy == filtered[8][2] - filtered[4][2]
  IN dx * dx + dy * dy < (100 * CLICK_THRESHOLD) * (100 * CLICK_THRESHOLD)

SwipeBranch_KeepVotes(label, buf) ==
  /\ final_gesture' = label
  /\ gesture_buffer' = buf

\* line 181-183: a swipe is the gesture of the frame and clears the votes
SwipeBranch(label, buf) ==
  /\ final_gesture' = label
  /\ gesture_buffer' = <<>>

OutOfRoiBranch_KeepVotes(buf) ==
  /\ final_gesture' = "UNKNOWN"
  /\ gesture_buffer' = buf

\* line 202-204: hand outside the ROI, no swipe: the votes are cleared
OutOfRoiBranch(buf) ==
  /\ final_gesture' = "UNKNOWN"
  /\ gesture_buffer' = <<>>

\* line 112-204: a frame with a hand, processed at time t
HandFrame(f, t) ==
  /\ missed_frames' = 0
  /\ landmarks' = HandLandmarks(f.c)
  /\ landmark_smoother' = LandmarkSmootherUpdate(landmark_smoother, landmarks')
  /\ filtered_landmarks' = [i \in DOMAIN landmark_smoother' |->
                              SmootherPosition(landmark_smoother'[i])]
  /\ pointer_smoother' = PointerSmootherUpdate(pointer_smoother, landmarks'[8][1],
                                               landmarks'[8][2], t)
  /\ pointer_info' = [x |-> PointerPosition(pointer_smoother')[1],
                      y |-> PointerPosition(pointer_smoother')[2],
                      click |-> IsClicking(filtered_landmarks')]
  /\ SwipeProcess(Centroid(landmarks'), t)
  /\ IF swipe_gesture' # "UNKNOWN"
     THEN SwipeBranch(swipe_gesture', gesture_buffer)
     ELSE IF InRoi(Centroid(landmarks'))
          THEN /\ gesture_buffer' = DequeAppend(gesture_buffer, f.shape,
                                                SMOOTHING_BUFFER_SIZE)
               /\ final_gesture' = Vote(gesture_buffer')
          ELSE OutOfRoiBranch(gesture_buffer)

TrackingLost_NoSmootherReset ==
  /\ gesture_buffer' = <<>>
  /\ landmarks' = NoLandmarks
  /\ filtered_landmarks' = NoLandmarks
  /\ UNCHANGED <<landmark_smoother, pointer_smoother>>

\* line 209-215: the reset after the hand was lost for too long
TrackingLost ==
  /\ gesture_buffer' = <<>>
  /\ landmarks' = NoLandmarks
  /\ filtered_landmarks' = NoLandmarks
  /\ landmark_smoother' = LandmarkSmootherReset(landmark_smoother)
  /\ pointer_smoother' = PointerSmootherReset(pointer_smoother)

\* line 205-215: a frame without a hand
NoHandFrame ==
  /\ missed_frames' = missed_frames + 1
  /\ IF missed_frames' > MAX_MISSED_FRAMES
     THEN TrackingLost
     ELSE UNCHANGED <<gesture_buffer, landmarks, filtered_landmarks,
                      landmark_smoother, pointer_smoother>>
  /\ final_gesture' = "UNKNOWN"
  /\ pointer_info' = <<>>
  /\ UNCHANGED <<history, last_swipe_time, swipe_gesture, trajectory>>

\* process_frame(frame) at time t; f is what the detector finds in the frame
ProcessFrame(f, t) ==
  /\ frame_in' = f
  /\ wnow' = t
  /\ IF f.hand THEN HandFrame(f, t) ELSE NoHandFrame
  /\ UNCHANGED enabled_signs

\* The allowlists the settings dialog stores in this model.
AllowlistChoices == {{}, {"OPEN_PALM"}}

\* ui_manager.py save_settings, line 337-342: the checked signs become
\* config.ENABLED_SIGNS (the dialog's other settings are no state of this
\* model)
SaveSettings ==
  \E signs \in AllowlistChoices :
    /\ signs # enabled_signs
    /\ enabled_signs' = signs
    /\ UNCHANGED <<swipeVars, missed_frames, gesture_buffer, landmarks,
                   filtered_landmarks, landmark_smoother, pointer_smoother,
                   final_gesture, pointer_info, frame_in>>

\* The frames of the classification specification: a hand in the sign zone
\* showing one of two shapes, a hand further right in the zone, a hand left of
\* the zone, and no hand.
ClassifyFrames ==
  {NoHand,
   [hand |-> TRUE, c |-> <<40, 80>>, shape |-> "OPEN_PALM"],
   [hand |-> TRUE, c |-> <<40, 80>>, shape |-> "THUMBS_UP"],
   [hand |-> TRUE, c |-> <<51, 80>>, shape |-> "OPEN_PALM"],
   [hand |-> TRUE, c |-> <<20, 80>>, shape |-> "OPEN_PALM"]}

\* The frames of the tracking specification: a hand at two places, and no hand.
TrackingFrames ==
  {NoHand,
   [hand |-> TRUE, c |-> <<40, 80>>, shape |-> "OPEN_PALM"],
   [hand |-> TRUE, c |-> <<51, 80>>, shape |-> "OPEN_PALM"]}

\* the worker's loop hands one frame per tick to process_frame
ClassifyFrame ==
  \E f \in ClassifyFrames :
    /\ wnow < MaxEngineTime
    /\ ProcessFrame(f, wnow + 1)

\* the same loop, with the frames of the tracking specification
TrackFrame ==
  \E f \in TrackingFrames :
    /\ wnow < MaxTrackingTime
    /\ ProcessFrame(f, wnow + 1)

\* The frames of the buffer specification: a hand in the sign zone showing one
\* of two shapes, and a hand further right in the zone.
BufferFrames ==
  {[hand |-> TRUE, c |-> <<40, 80>>, shape |-> "OPEN_PALM"],
   [hand |-> TRUE, c |-> <<40, 80>>, shape |-> "THUMBS_UP"],
   [hand |-> TRUE, c |-> <<51, 80>>, shape |-> "OPEN_PALM"]}

\* the same loop, with the frames of the buffer specification
BufferFrame ==
  \E f \in BufferFrames :
    /\ wnow < MaxBufferTime
    /\ ProcessFrame(f, wnow + 1)

\* GestureProcessor.__init__, line 40-71; config.ENABLED_SIGNS = []
InitProcessor ==
  /\ missed_frames = 0
  /\ gesture_buffer = <<>>
  /\ landmarks = NoLandmarks
  /\ filtered_landmarks = NoLandmarks
  /\ landmark_smoother = LandmarkSmootherNew
  /\ pointer_smoother = PointerSmootherNew
  /\ final_gesture = "UNKNOWN"
  /\ pointer_info = <<>>
  /\ frame_in = NoHand
  /\ enabled_signs = {}

(* ------------------ GestureRecorder (gesture_recorder.py) ------------- *)

\* find_match(landmarks, threshold=0.05): the threshold in hundredths
MATCH_THRESHOLD == 5

\* what find_match returns when nothing matches
NoMatch == "None"

\* The names gestures are recorded under in this model.
RecorderNames == {"wave", "rock"}

\* A hand of size k at c whose index tip is moved by tip off the rigid shape.
RecorderHand(c, k, tip) ==
  [i \in 0..(NUM_LANDMARKS - 1) |->
     LET o == HandLandmarks(<<0, 0>>)[i]
     IN IF i = 8 THEN <<c[1] + k * (o[1] + tip), c[2] + k * o[2]>>
        ELSE <<c[1] + k * o[1], c[2] + k * o[2]>>]

\* The hands shown to the recorder: one shape at two places and in two
\* sizes, the shape with the index tip slightly moved, and with it far out.
RecorderHands ==
  {RecorderHand(<<40, 80>>, 1, 0), RecorderHand(<<51, 70>>, 2, 0),
   RecorderHand(<<40, 80>>, 1, 4), RecorderHand(<<40, 80>>, 1, 20)}

\* _normalize_landmarks: center on the wrist (0), scale by the distance from
\* the wrist to the middle MCP (9), 1.0 if that is below 1e-6; the result in
\* hundredths
NormalizeLandmarks(lms) ==
  LET wrist == lms[0]
      cx == lms[9][1] - wrist[1]
      cy == lms[9][2] - wrist[2]
      norm == ISqrt(cx * cx + cy * cy, Abs(cx) + Abs(cy))
      scale_ref == IF norm = 0 THEN 100 ELSE norm
  IN [i \in DOMAIN lms |->
        <<(100 * (lms[i][1] - wrist[1])) \div scale_ref,
          (100 * (lms[i][2] - wrist[2])) \div scale_ref>>]

\* _calculate_error times the number of coordinates: the sum of the squared
\* differences of two templates (in ten-thousandths)
SquaredError(norm1, norm2) ==
  SeqSum([k \in 1..(2 * NUM_LANDMARKS) |->
            LET i == (k - 1) \div 2
                c == ((k - 1) % 2) + 1
            IN (norm1[i][c] - norm2[i][c]) * (norm1[i][c] - norm2[i][c])])

\* the position of name in store g, 0 if it has none
IndexOf(g, name) ==
  IF \E i \in DOMAIN g : g[i].name = name
  THEN CHOOSE i \in DOMAIN g : g[i].name = name
  ELSE 0

\* line 30, self.gestures[name] = normalized: a new key is added at the end,
\* an existing key keeps its place and gets the new value
StorePut(g, name, template) ==
  IF IndexOf(g, name) = 0
  THEN Append(g, [name |-> name, template |-> template])
  ELSE [g EXCEPT ![IndexOf(g, name)].template = template]

\* find_match, line 46-62: the first entry with the least error, if that
\* error is below the threshold
FindMatch(g, lms) ==
  IF g = <<>> THEN NoMatch
  ELSE LET current_norm == NormalizeLandmarks(lms)
           error == [i \in DOMAIN g |-> SquaredError(current_norm, g[i].template)]
           best == CHOOSE i \in DOMAIN g :
                     /\ \A j \in DOMAIN g : error[i] <= error[j]
                     /\ \A j \in 1..(i - 1) : error[j] > error[i]
       IN IF error[best] < MATCH_THRESHOLD * 100 * 2 * NUM_LANDMARKS
          THEN g[best].name ELSE NoMatch

\* save_gesture(name, landmarks), line 29-39; ok: the file could be written
SaveGesture ==
  \E name \in RecorderNames, lms \in RecorderHands, ok \in BOOLEAN :
    /\ gestures' = StorePut(gestures, name, NormalizeLandmarks(lms))
    /\ gestures_file' = IF ok THEN gestures' ELSE gestures_file
    /\ saved' = ok
    /\ UNCHANGED match

\* find_match(landmarks) as _recognize_gesture calls it, line 291
FindMatchCall ==
  \E lms \in RecorderHands :
    /\ match' = FindMatch(gestures, lms)
    /\ UNCHANGED <<gestures, gestures_file, saved>>

\* GestureRecorder.__init__, line 10-12, with no custom_gestures.json yet
InitRecorder ==
  /\ gestures = <<>>
  /\ gestures_file = <<>>
  /\ match = NoMatch
  /\ saved = FALSE

(* ------------ GestureProcessor._recognize_gesture (line 220-309) ------ *)

\* _is_ok_sign: distance < 0.08, in hundredths
OK_SIGN_DISTANCE == 8

\* The hands shown to _recognize_gesture. The wrist is at (50, 80); dir is -1
\* for a hand that points up the image and 1 for one that points down. Each
\* of the four fingers is stretched or curled (middle, ring and pinky in the
\* five combinations of OuterFingers); the thumb is curled, or stretched with
\* its tip above or below its IP joint; pinch moves the index tip to the
\* thumb tip ("index"), the thumb tip to the index tip ("thumb"), or nothing
\* ("none").
ThumbPoses == {"curled", "above", "below"}
PinchPoses == {"none", "index", "thumb"}
OuterFingers ==
  {<<TRUE, TRUE, TRUE>>, <<FALSE, FALSE, FALSE>>, <<TRUE, FALSE, FALSE>>,
   <<FALSE, FALSE, TRUE>>, <<TRUE, TRUE, FALSE>>}

Poses ==
  {p \in [thumb : ThumbPoses, index : BOOLEAN, middle : BOOLEAN,
          ring : BOOLEAN, pinky : BOOLEAN, dir : {-1, 1}, pinch : PinchPoses] :
     <<p.middle, p.ring, p.pinky>> \in OuterFingers}

PosedHand(p) ==
  LET wy == 80
      FingerX(i) == CASE i \in 5..8 -> 44 [] i \in 9..12 -> 50
                      [] i \in 13..16 -> 56 [] OTHER -> 62
      stretched(i) == CASE i \in 5..8 -> p.index [] i \in 9..12 -> p.middle
                        [] i \in 13..16 -> p.ring [] OTHER -> p.pinky
      FingerY(i) ==
        LET joint == (i - 5) % 4
        IN CASE joint = 0 -> wy + p.dir * (IF i = 17 THEN 18 ELSE 20)
             [] joint = 1 -> wy + p.dir * 28
             [] joint = 2 -> wy + p.dir * (IF stretched(i) THEN 34 ELSE 26)
             [] OTHER -> wy + p.dir * (IF stretched(i) THEN 40 ELSE 22)
      ipy == wy + p.dir * 10
      thumb_free == CASE p.thumb = "curled" -> <<42, wy + p.dir * 14>>
                      [] p.thumb = "above" -> <<28, ipy - 10>>
                      [] OTHER -> <<28, ipy + 10>>
      index_free == <<FingerX(8), FingerY(8)>>
  IN [i \in 0..(NUM_LANDMARKS - 1) |->
        CASE i = 0 -> <<50, wy>>
          [] i = 1 -> <<42, wy + p.dir * 4>>
          [] i = 2 -> <<38, wy + p.dir * 8>>
          [] i = 3 -> <<34, ipy>>
          [] i = 4 -> IF p.pinch = "thumb"
                      THEN <<index_free[1] - 3, index_free[2]>> ELSE thumb_free
          [] i = 8 -> IF p.pinch = "index"
                      THEN <<thumb_free[1] + 3, thumb_free[2]>> ELSE index_free
          [] OTHER -> <<FingerX(i), FingerY(i)>>]

PosedHands == {PosedHand(p) : p \in Poses}

\* the square of math.hypot(a.x - b.x, a.y - b.y)
Dist2(a, b) == (a[1] - b[1]) * (a[1] - b[1]) + (a[2] - b[2]) * (a[2] - b[2])

\* line 233-240, is_finger_extended(tip_idx, pip_idx): the tip is further
\* from the wrist than the PIP joint
IsFingerExtended(lms, tip_idx, pip_idx) ==
  Dist2(lms[tip_idx], lms[0]) > Dist2(lms[pip_idx], lms[0])

\* line 245-252: the thumb tip is further from the pinky base than the thumb
\* IP joint; line 255-258: the other four fingers
ExtensionFlags(lms) ==
  [thumb |-> Dist2(lms[4], lms[17]) > Dist2(lms[3], lms[17]),
   index |-> IsFingerExtended(lms, 8, 6),
   middle |-> IsFingerExtended(lms, 12, 10),
   ring |-> IsFingerExtended(lms, 16, 14),
   pinky |-> IsFingerExtended(lms, 20, 18)]

\* _is_ok_sign, line 297-309: thumb and index tips closer than 0.08 and the
\* tips of middle, ring and pinky above their PIP joints in the image
IsOkSign(lms) ==
  /\ Dist2(lms[8], lms[4]) < OK_SIGN_DISTANCE * OK_SIGN_DISTANCE
  /\ lms[12][2] < lms[10][2]
  /\ lms[16][2] < lms[14][2]
  /\ lms[20][2] < lms[18][2]

RecognizeGesture_OkSignFirst(lms, g) ==
  IF lms = NoLandmarks THEN [label |-> "UNKNOWN", consulted |-> FALSE]
  ELSE LET f == ExtensionFlags(lms)
       IN IF IsOkSign(lms)
          THEN [label |-> "OK_SIGN", consulted |-> FALSE]
          ELSE IF f.thumb /\ f.index /\ f.middle /\ f.ring /\ f.pinky
          THEN [label |-> "OPEN_PALM", consulted |-> FALSE]
          ELSE IF ~f.thumb /\ ~f.index /\ ~f.middle /\ ~f.ring /\ ~f.pinky
          THEN [label |-> "FIST", consulted |-> FALSE]
          ELSE IF ~f.thumb /\ f.index /\ ~f.middle /\ ~f.ring /\ ~f.pinky
          THEN [label |-> "INDEX_POINTING_UP", consulted |-> FALSE]
          ELSE IF ~f.thumb /\ f.index /\ f.middle /\ ~f.ring /\ ~f.pinky
          THEN [label |-> "V_SIGN", consulted |-> FALSE]
          ELSE IF f.thumb /\ f.index /\ ~f.middle /\ ~f.ring /\ f.pinky
          THEN [label |-> "SPIDERMAN", consulted |-> FALSE]
          ELSE IF f.thumb /\ ~f.index /\ ~f.middle /\ ~f.ring /\ ~f.pinky
          THEN [label |-> IF lms[4][2] < lms[3][2] THEN "THUMBS_UP"
                          ELSE "THUMBS_DOWN",
                consulted |-> FALSE]
          ELSE LET custom_match == FindMatch(g, lms)
               IN [label |-> IF custom_match # NoMatch THEN custom_match
                             ELSE "UNKNOWN",
                   consulted |-> TRUE]

\* _recognize_gesture, line 220-295, on landmarks lms with the recorder's
\* store g: the label it returns, and whether it called find_match
RecognizeGesture(lms, g) ==
  IF lms = NoLandmarks THEN [label |-> "UNKNOWN", consulted |-> FALSE]
  ELSE LET f == ExtensionFlags(lms)
       IN IF f.thumb /\ f.index /\ f.middle /\ f.ring /\ f.pinky
          THEN [label |-> "OPEN_PALM", consulted |-> FALSE]
          ELSE IF ~f.thumb /\ ~f.index /\ ~f.middle /\ ~f.ring /\ ~f.pinky
          THEN [label |-> "FIST", consulted |-> FALSE]
          ELSE IF ~f.thumb /\ f.index /\ ~f.middle /\ ~f.ring /\ ~f.pinky
          THEN [label |-> "INDEX_POINTING_UP", consulted |-> FALSE]
          ELSE IF ~f.thumb /\ f.index /\ f.middle /\ ~f.ring /\ ~f.pinky
          THEN [label |-> "V_SIGN", consulted |-> FALSE]
          ELSE IF f.thumb /\ f.index /\ ~f.middle /\ ~f.ring /\ f.pinky
          THEN [label |-> "SPIDERMAN", consulted |-> FALSE]
          ELSE IF IsOkSign(lms)
          THEN [label |-> "OK_SIGN", consulted |-> FALSE]
          ELSE IF f.thumb /\ ~f.index /\ ~f.middle /\ ~f.ring /\ ~f.pinky
          THEN [label |-> IF lms[4][2] < lms[3][2] THEN "THUMBS_UP"
                          ELSE "THUMBS_DOWN",
                consulted |-> FALSE]
          ELSE LET custom_match == FindMatch(g, lms)
               IN [label |-> IF custom_match # NoMatch THEN custom_match
                             ELSE "UNKNOWN",
                   consulted |-> TRUE]

\* one call of _recognize_gesture (line 193 of process_frame) on a hand
RecognizeCall ==
  \E lms \in PosedHands :
    /\ pose_landmarks' = lms
    /\ \E r \in {RecognizeGesture(lms, gestures)} :
         shape' = r.label /\ consulted' = r.consulted
    /\ seen_gestures' = gestures
    /\ UNCHANGED recVars

\* The hand the user records as a custom gesture in this model: three
\* fingers up.
RecordedPoses ==
  {[thumb |-> "curled", index |-> TRUE, middle |-> TRUE, ring |-> TRUE,
    pinky |-> FALSE, dir |-> -1, pinch |-> "none"]}

\* save_gesture(name, landmarks), line 29-39, for a posed hand
RecordPose ==
  \E name \in {"wave"}, p \in RecordedPoses, ok \in BOOLEAN :
    /\ gestures' = StorePut(gestures, name, NormalizeLandmarks(PosedHand(p)))
    /\ gestures_file' = IF ok THEN gestures' ELSE gestures_file
    /\ saved' = ok
    /\ UNCHANGED <<match, recogVars>>

\* before the first frame with a hand
InitRecognize ==
  /\ pose_landmarks = NoLandmarks
  /\ shape = "UNKNOWN"
  /\ consulted = FALSE
  /\ seen_gestures = <<>>

\* config.AVAILABLE_SIGNS, config.py line 135-138
AVAILABLE_SIGNS ==
  {"THUMBS_UP", "THUMBS_DOWN", "OPEN_PALM", "OK_SIGN", "VICTORY", "POINT_UP",
   "SPIDERMAN"}

\* ui_manager.py save_settings, line 337-342, with the check boxes the dialog
\* builds from config.AVAILABLE_SIGNS (line 302-309): any of them may be
\* checked
SaveAllowlist ==
  \E signs \in SUBSET AVAILABLE_SIGNS :
    /\ signs # enabled_signs
    /\ enabled_signs' = signs

\* VisionThread.__init__ is not run yet; CameraManager.__init__, line 122-125;
\* AppUIManager.__init__
InitPipeline ==
  /\ wpc = "unstarted"
  /\ stop_event = FALSE
  /\ cap = "none"
  /\ gesture_processor = "none"
  /\ frame_skip_counter = 0
  /\ exc = "none"
  /\ log = {}
  /\ result_queue = <<>>
  /\ published = 0
  /\ dropped = 0
  /\ mpc = "idle"
  /\ latest = 0
  /\ vision_thread = FALSE
  /\ join_wait = 0
  /\ sessions = 0
  /\ status = "Idle"
  /\ is_camera_running = FALSE
  /\ timers = [running |-> 0, started |-> 0]

\* GestureControllerApp.__init__ and AppUIManager.__init__, and start(), which
\* schedules the first call of update(); time.time() is far past the cooldown
\* when the program starts.
InitDispatch ==
  /\ last_gesture = NoGesture
  /\ last_gesture_time = 0
  /\ current_profile_name = "DEFAULT"
  /\ is_overlay = FALSE
  /\ now = GESTURE_COOLDOWN + 1
  /\ gesture = "UNKNOWN"
  /\ hotkeys = <<>>
  /\ action_times = <<>>
  /\ locked = {}
  /\ window_title = NoTitle
  /\ update_scheduled = TRUE


InitEngine == InitSwipe /\ InitProcessor /\ InitRecorder /\ InitLifecycle
              /\ InitLowLight /\ InitRecognize /\ InitLandmarks /\ InitPointer

Init == InitDispatch /\ InitPipeline /\ InitEngine

NextDispatch ==
  \/ Update /\ UNCHANGED <<pipeVars, engVars>>
  \/ UpdateAppState /\ UNCHANGED <<pipeVars, engVars>>
  \/ EnterOverlayMode /\ UNCHANGED <<pipeVars, engVars>>
  \/ ExitOverlayMode /\ UNCHANGED <<pipeVars, engVars>>

SpecDispatch == Init /\ [][NextDispatch]_vars

Next ==
  \/ WorkerOpen /\ UNCHANGED <<dispVars, engVars>>
  \/ WorkerInit /\ UNCHANGED <<dispVars, engVars>>
  \/ WorkerLoopTest /\ UNCHANGED <<dispVars, engVars>>
  \/ WorkerRead /\ UNCHANGED <<dispVars, engVars>>
  \/ WorkerFrameSkip /\ UNCHANGED <<dispVars, engVars>>
  \/ WorkerProcess /\ UNCHANGED <<dispVars, engVars>>
  \/ WorkerFallback /\ UNCHANGED <<dispVars, engVars>>
  \/ WorkerFull /\ UNCHANGED <<dispVars, engVars>>
  \/ WorkerDiscard /\ UNCHANGED <<dispVars, engVars>>
  \/ WorkerPut /\ UNCHANGED <<dispVars, engVars>>
  \/ WorkerSleep /\ UNCHANGED <<dispVars, engVars>>
  \/ WorkerExcept /\ UNCHANGED <<dispVars, engVars>>
  \/ WorkerFinally /\ UNCHANGED <<dispVars, engVars>>
  \/ StartCamera /\ UNCHANGED <<dispVars, engVars>>
  \/ TimerRunning /\ UNCHANGED <<dispVars, engVars>>
  \/ TimerStarted /\ UNCHANGED <<dispVars, engVars>>
  \/ StopCameraBegin /\ UNCHANGED <<dispVars, engVars>>
  \/ JoinTick /\ UNCHANGED <<dispVars, engVars>>
  \/ JoinReturn /\ UNCHANGED <<dispVars, engVars>>
  \/ GetLatestFrame /\ UNCHANGED <<dispVars, engVars>>
  \/ DrainGet /\ UNCHANGED <<dispVars, engVars>>
  \/ DrainEmpty /\ UNCHANGED <<dispVars, engVars>>

Spec == Init /\ [][Next]_vars

NextSwipe ==
  \/ SwipeCall /\ UNCHANGED <<dispVars, pipeVars, procVars, recVars, extVars>>

SpecSwipe == Init /\ [][NextSwipe]_vars

NextEngine ==
  \/ ClassifyFrame /\ UNCHANGED <<dispVars, pipeVars, recVars, extVars>>
  \/ SaveSettings /\ UNCHANGED <<dispVars, pipeVars, recVars, extVars>>

SpecEngine == Init /\ [][NextEngine]_vars

NextTracking ==
  \/ TrackFrame /\ UNCHANGED <<dispVars, pipeVars, recVars, extVars>>

SpecTracking == Init /\ [][NextTracking]_vars

\* process_frame over runs long enough to fill both of its buffers.
NextBuffers ==
  \/ BufferFrame /\ UNCHANGED <<dispVars, pipeVars, recVars, extVars>>

SpecBuffers == Init /\ [][NextBuffers]_vars

\* The gesture recorder alone: templates are recorded and looked up.
NextRecorder ==
  \/ SaveGesture /\ UNCHANGED <<dispVars, pipeVars, swipeVars, procVars, extVars>>
  \/ FindMatchCall /\ UNCHANGED <<dispVars, pipeVars, swipeVars, procVars, extVars>>

SpecRecorder == Init /\ [][NextRecorder]_vars

\* The camera manager's commands, its timers and the ends of its threads.
NextLifecycle ==
  \/ StartCameraCheck /\ UNCHANGED <<dispVars, pipeVars, swipeVars, procVars, recVars, lightVars, recogVars, lsVars, ptrVars>>
  \/ StartCameraCreate /\ UNCHANGED <<dispVars, pipeVars, swipeVars, procVars, recVars, lightVars, recogVars, lsVars, ptrVars>>
  \/ TimerStartCheck /\ UNCHANGED <<dispVars, pipeVars, swipeVars, procVars, recVars, lightVars, recogVars, lsVars, ptrVars>>
  \/ TimerStartCreate /\ UNCHANGED <<dispVars, pipeVars, swipeVars, procVars, recVars, lightVars, recogVars, lsVars, ptrVars>>
  \/ StopCamera /\ UNCHANGED <<dispVars, pipeVars, swipeVars, procVars, recVars, lightVars, recogVars, lsVars, ptrVars>>
  \/ ChangeCamera /\ UNCHANGED <<dispVars, pipeVars, swipeVars, procVars, recVars, lightVars, recogVars, lsVars, ptrVars>>
  \/ LifeJoinTick /\ UNCHANGED <<dispVars, pipeVars, swipeVars, procVars, recVars, lightVars, recogVars, lsVars, ptrVars>>
  \/ LifeJoinReturn /\ UNCHANGED <<dispVars, pipeVars, swipeVars, procVars, recVars, lightVars, recogVars, lsVars, ptrVars>>
  \/ ThreadExit /\ UNCHANGED <<dispVars, pipeVars, swipeVars, procVars, recVars, lightVars, recogVars, lsVars, ptrVars>>
  \/ NotifyRunning /\ UNCHANGED <<dispVars, pipeVars, swipeVars, procVars, recVars, lightVars, recogVars, lsVars, ptrVars>>
  \/ NotifyStarted /\ UNCHANGED <<dispVars, pipeVars, swipeVars, procVars, recVars, lightVars, recogVars, lsVars, ptrVars>>

SpecLifecycle == Init /\ [][NextLifecycle]_vars

\* The worker's luminance check over the frames it processes.
NextLowLight ==
  \/ LowLightFrame /\ UNCHANGED <<dispVars, pipeVars, swipeVars, procVars, recVars, lifeVars, recogVars, lsVars, ptrVars>>

SpecLowLight == Init /\ [][NextLowLight]_vars

\* The landmark smoother under calls of its two updating methods.
NextLandmarks ==
  \/ LandmarkUpdateCall
       /\ UNCHANGED <<dispVars, pipeVars, swipeVars, recVars, lifeVars, lightVars,
                      recogVars, ptrVars, missed_frames, gesture_buffer, landmarks,
                      filtered_landmarks, pointer_smoother, final_gesture,
                      pointer_info, frame_in, enabled_signs>>
  \/ GetSmoothedPositionCall
       /\ UNCHANGED <<dispVars, pipeVars, swipeVars, recVars, lifeVars, lightVars,
                      recogVars, ptrVars, missed_frames, gesture_buffer, landmarks,
                      filtered_landmarks, pointer_smoother, final_gesture,
                      pointer_info, frame_in, enabled_signs>>

SpecLandmarks == Init /\ [][NextLandmarks]_vars

\* The settings dialog alone: the user saves one allowlist after another.
NextSettings ==
  \/ SaveAllowlist
       /\ UNCHANGED <<dispVars, pipeVars, swipeVars, recVars, extVars, missed_frames,
                      gesture_buffer, landmarks, filtered_landmarks,
                      landmark_smoother, pointer_smoother, final_gesture,
                      pointer_info, frame_in>>

SpecSettings == Init /\ [][NextSettings]_vars

\* The pointer smoother under updates and resets.
NextPointer ==
  \/ PointerUpdateCall
       /\ UNCHANGED <<dispVars, pipeVars, swipeVars, procVars, recVars, lifeVars,
                      lightVars, recogVars, lsVars>>
  \/ PointerResetCall
       /\ UNCHANGED <<dispVars, pipeVars, swipeVars, procVars, recVars, lifeVars,
                      lightVars, recogVars, lsVars>>

SpecPointer == Init /\ [][NextPointer]_vars

\* Static shape recognition with a recorder whose store the user fills.
NextRecognize ==
  \/ RecognizeCall /\ UNCHANGED <<dispVars, pipeVars, swipeVars, procVars, lifeVars, lightVars, lsVars, ptrVars>>
  \/ RecordPose /\ UNCHANGED <<dispVars, pipeVars, swipeVars, procVars, lifeVars, lightVars, lsVars, ptrVars>>

SpecRecognize == Init /\ [][NextRecognize]_vars

\* The scheduler runs the worker thread: a worker that can take a step
\* eventually takes one (cap.read() returns, process_frame returns or raises).
FairSpec == Spec /\ WF_vars(WorkerStep /\ UNCHANGED <<dispVars, engVars>>)

(* ------------------- claims about the gesture dispatcher -------------- *)

\* A step that is one consumer cycle (each cycle reads a later time).
CycleStep == now' > now

\* The label of the cycle is not UNKNOWN, is mapped in the active profile and
\* differs from the last-dispatched label.
Dispatchable(raw) ==
  /\ raw # "UNKNOWN"
  /\ raw \in DOMAIN CurrentProfile
  /\ raw # last_gesture

\* C1: in every cycle whose label is not UNKNOWN, is mapped in the active
\* profile, differs from the last-dispatched label and arrives more than the
\* cooldown after the last dispatch, the mapped action is executed exactly once
\* and the last-dispatched label and timestamp become this label and this time.
C1_EligibleCycleExecutesAction ==
  [][(CycleStep /\ Dispatchable(gesture')
      /\ now' - last_gesture_time > GESTURE_COOLDOWN)
     => /\ hotkeys' = <<CurrentProfile[gesture']>>
        /\ last_gesture' = gesture'
        /\ last_gesture_time' = now']_vars

\* C2 as stated: once an action has fired for L, L fires again only after a
\* cycle whose label is UNKNOWN (locked holds the labels fired since then).
C2_OnlyUnknownRearms ==
  [][(CycleStep /\ hotkeys' # <<>>) => gesture' \notin locked]_vars

\* C2 as amended: a cycle that delivers the last-dispatched label executes
\* nothing, and the last-dispatched label L is given up only by a cycle whose
\* label is UNKNOWN or unmapped (it becomes none) or by a cycle that dispatches
\* a different mapped label after the cooldown (it becomes that label).
C2_LockUntilLastGestureChanges ==
  [][/\ (CycleStep /\ gesture' = last_gesture) => hotkeys' = <<>>
     /\ (last_gesture # NoGesture /\ last_gesture' # last_gesture)
        => /\ CycleStep
           /\ \/ /\ gesture' = "UNKNOWN" \/ gesture' \notin DOMAIN CurrentProfile
                 /\ last_gesture' = NoGesture
              \/ /\ Dispatchable(gesture')
                 /\ now' - last_gesture_time > GESTURE_COOLDOWN
                 /\ last_gesture' = gesture']_vars

\* C2 witness: the locked label is delivered again after the cooldown has
\* elapsed and no action is executed.
C2_Witness ==
  /\ last_gesture = "SWIPE_RIGHT"
  /\ gesture = "SWIPE_RIGHT"
  /\ hotkeys = <<>>
  /\ now - last_gesture_time > GESTURE_COOLDOWN
  /\ action_times # <<>>

C4_UnknownNeverFires ==
  [][CycleStep =>
     /\ (gesture' = "UNKNOWN" \/ gesture' \notin DOMAIN CurrentProfile)
        => hotkeys' = <<>>
     /\ gesture' = "UNKNOWN"
        => (last_gesture' = NoGesture /\ last_gesture_time' = last_gesture_time)]_vars

\* C4 witness: an UNKNOWN cycle after a dispatch: the label is cleared, the
\* timestamp of the dispatch is kept.
C4_Witness ==
  /\ gesture = "UNKNOWN"
  /\ last_gesture = NoGesture
  /\ last_gesture_time > 0
  /\ hotkeys = <<>>

(* ------------- claims about the worker and the result channel --------- *)

\* C5: the channel never holds more than 2 results, the worker's put never
\* finds the queue full (it never blocks), and an entry the worker discards is
\* older than every entry left in the channel.
C5_BoundedDropOldestNonBlocking ==
  /\ Len(result_queue) <= QUEUE_MAXSIZE
  /\ wpc = "put" => Len(result_queue) < QUEUE_MAXSIZE
  /\ dropped # 0 => \A i \in 1..Len(result_queue) : dropped < result_queue[i]

\* C5 witness: the worker found the channel full, discarded the oldest entry
\* and has put its result behind the one that was left.
C5_Witness ==
  /\ wpc = "sleep"
  /\ dropped = 1
  /\ result_queue = <<2, 3>>

\* C6: when the drain observes the channel empty and returns a result, that
\* result is the most recent one the worker has published.
C6_DrainReturnsLatestPublished ==
  [][(mpc = "drain" /\ mpc' = "idle" /\ latest # 0) => latest = published]_vars

\* C7: an exception raised while processing a frame does not end the worker:
\* a worker that ended after such an exception was told to stop.
C7_BadFrameDoesNotEndWorker ==
  (exc = "frame" /\ wpc \in {"finally", "terminated"}) => stop_event

\* C8: after a failed open the worker neither enters its loop nor retries, and
\* the session is not announced as running: once the worker has ended and the
\* timers of start_camera have fired, neither "Status: Running" is shown nor
\* has "camera:started" set the running flag.
C8_OpenFailureReported ==
  "Failed to open camera" \in log =>
    /\ wpc \in {"finally", "terminated"}
    /\ gesture_processor = "none"
    /\ (wpc = "terminated" /\ timers.running = 0 /\ timers.started = 0)
       => (status # "Status: Running" /\ ~is_camera_running)

\* C9: when run() has ended, by whichever path, a capture that was created is
\* released and a gesture processor that was created is closed.
C9_CleanupOnEveryExit ==
  wpc = "terminated" =>
    /\ cap \in {"none", "released"}
    /\ gesture_processor \in {"none", "closed"}

\* C9 witness: run() ended by an exception in the loop, with the capture
\* released and the processor closed.
C9_Witness ==
  /\ wpc = "terminated"
  /\ exc = "frame"
  /\ ~stop_event
  /\ cap = "released"
  /\ gesture_processor = "closed"

\* C10: every loop iteration starts with the test of the stop flag (the read
\* is entered only from the test, with the flag clear, and a failed read, a
\* skipped frame and a published result all lead back to the test); once the
\* flag is set the worker terminates; join() waits at most JOIN_TIMEOUT.
C10_CooperativeStop ==
  /\ [][(wpc' = "read" /\ wpc # "read") => (wpc = "loop" /\ ~stop_event)]_vars
  /\ [][(wpc \in {"read", "skip", "sleep"} /\ wpc' # wpc /\ IsAlive')
        => wpc' \in {"loop", "skip", "process"}]_vars
  /\ (stop_event /\ IsAlive) ~> (wpc = "terminated")
  /\ [](join_wait <= JOIN_TIMEOUT)

\* C10 witness: the stop flag was set while the worker was in its loop, and
\* the worker has terminated within the first second of the join.
C10_Witness ==
  /\ stop_event
  /\ wpc = "terminated"
  /\ gesture_processor = "closed"
  /\ exc = "none"
  /\ mpc = "joining"
  /\ join_wait = 1

(* ------------------ claims about the gesture processor ---------------- *)

\* A step that is one process_frame cycle (each frame reads a later time).
FrameStep == wnow' > wnow

\* Every filter of the landmark smoother and the pointer smoother is in its
\* reset state: not initialized, zero position and velocity, both axis filters
\* unseeded.
SmoothersAreReset ==
  /\ \A i \in DOMAIN landmark_smoother :
       /\ ~landmark_smoother[i].initialized
       /\ SmootherPosition(landmark_smoother[i]) = <<0, 0>>
       /\ landmark_smoother[i].vx = 0 /\ landmark_smoother[i].vy = 0
  /\ ~pointer_smoother.kalman.initialized
  /\ SmootherPosition(pointer_smoother.kalman) = <<0, 0>>
  /\ pointer_smoother.kalman.vx = 0 /\ pointer_smoother.kalman.vy = 0
  /\ ~pointer_smoother.euro_x.seeded /\ ~pointer_smoother.euro_y.seeded
  /\ pointer_smoother.last_position = <<>>

\* C11: a cycle without a hand increments the missed-frame counter, a cycle
\* with a hand sets it to 0, and in every cycle without a hand in which the
\* counter exceeds MAX_MISSED_FRAMES both smoothers are reset and the vote
\* buffer and the swipe trajectory buffer are empty afterwards.
C11_TrackingLossRecovery ==
  [][FrameStep =>
     /\ frame_in'.hand => missed_frames' = 0
     /\ ~frame_in'.hand => missed_frames' = missed_frames + 1
     /\ (~frame_in'.hand /\ missed_frames' > MAX_MISSED_FRAMES)
        => /\ SmoothersAreReset'
           /\ gesture_buffer' = <<>>
           /\ history' = <<>>]_vars

\* C12: the first detection after the missed-frame threshold was exceeded
\* re-initializes every filter from that frame's raw measurement: each of the
\* 21 landmark filters and the pointer smoother return exactly the raw position
\* and hold zero velocity, whatever was tracked before the loss.
C12_ReinitFromRawAfterLoss ==
  [][(FrameStep /\ missed_frames > MAX_MISSED_FRAMES /\ frame_in'.hand) =>
     /\ Cardinality(DOMAIN landmark_smoother') = NUM_LANDMARKS
     /\ \A i \in DOMAIN landmark_smoother' :
          /\ landmark_smoother'[i].initialized
          /\ filtered_landmarks'[i] = <<100 * landmarks'[i][1], 100 * landmarks'[i][2]>>
          /\ SmootherPosition(landmark_smoother'[i]) = filtered_landmarks'[i]
          /\ landmark_smoother'[i].vx = 0 /\ landmark_smoother'[i].vy = 0
     /\ pointer_info'.x = 100 * landmarks'[8][1]
     /\ pointer_info'.y = 100 * landmarks'[8][2]
     /\ pointer_smoother'.kalman.vx = 0 /\ pointer_smoother'.kalman.vy = 0
     /\ pointer_smoother'.euro_x.dx_prev = 0 /\ pointer_smoother'.euro_y.dx_prev = 0
     /\ pointer_smoother'.velocity_history = <<>>]_vars

\* The hand moved before the loss (two samples at different x), stayed away for
\* more than MAX_MISSED_FRAMES frames and is detected again at a third time.
C12_Witness ==
  /\ frame_in.hand /\ missed_frames = 0
  /\ Len(trajectory) = 3
  /\ trajectory[1].x # trajectory[2].x
  /\ trajectory[3].t - trajectory[2].t > MAX_MISSED_FRAMES + 1
  /\ trajectory[3].x # trajectory[2].x
  /\ \A i \in DOMAIN landmark_smoother :
       landmark_smoother[i].initialized /\ landmark_smoother[i].vx = 0
  /\ pointer_info # <<>> /\ pointer_info.x = 100 * landmarks[8][1]

\* The centroid c lies strictly outside the configured sign zone.
OutsideRoi(c) ==
  \/ c[1] < SIGN_ROI_COORDS.x_min \/ c[1] > SIGN_ROI_COORDS.x_max
  \/ c[2] < SIGN_ROI_COORDS.y_min \/ c[2] > SIGN_ROI_COORDS.y_max

\* C13 as stated: in every cycle with a hand whose centroid is strictly outside
\* the region the emitted label is UNKNOWN and the vote buffer is empty after
\* the cycle.
C13_OutOfRegionIsUnknown ==
  [][(FrameStep /\ frame_in'.hand /\ OutsideRoi(frame_in'.c)) =>
     /\ final_gesture' = "UNKNOWN"
     /\ gesture_buffer' = <<>>]_vars

\* C13 amended: in every cycle with a hand whose centroid is strictly outside
\* the region the emitted label is UNKNOWN whatever the finger geometry, unless
\* the swipe detector returned a swipe label in that cycle, which is then the
\* emitted label; the vote buffer is empty after the cycle.
C13_OutOfRegionIsUnknownOrSwipe ==
  [][(FrameStep /\ frame_in'.hand /\ OutsideRoi(frame_in'.c)) =>
     /\ final_gesture' = swipe_gesture'
     /\ final_gesture' \in {"UNKNOWN", "SWIPE_LEFT", "SWIPE_RIGHT"}
     /\ gesture_buffer' = <<>>]_vars

\* An allowlisted shape shown outside the region right after a frame inside
\* it (which left a vote in the buffer): UNKNOWN and an empty buffer.
C13_Witness ==
  /\ frame_in.hand /\ OutsideRoi(frame_in.c)
  /\ frame_in.shape \in enabled_signs
  /\ Len(trajectory) >= 2
  /\ ~OutsideRoi(<<trajectory[Len(trajectory) - 1].x, trajectory[Len(trajectory) - 1].y>>)
  /\ trajectory[Len(trajectory)].t = trajectory[Len(trajectory) - 1].t + 1
  /\ swipe_gesture = "UNKNOWN"
  /\ final_gesture = "UNKNOWN"
  /\ gesture_buffer = <<>>

\* The number of votes for label l in buffer buf.
Votes(buf, l) == Cardinality({i \in DOMAIN buf : buf[i] = l})

\* l is a most frequent label of buf.
MostFrequent(buf, l) ==
  /\ Votes(buf, l) > 0
  /\ \A i \in DOMAIN buf : Votes(buf, buf[i]) <= Votes(buf, l)

\* C14: in an in-region cycle without a swipe the raw label is appended to
\* the vote buffer (the oldest vote leaving a full buffer), and the emitted
\* label is the buffer's most frequent label if its count is at least
\* GESTURE_CONFIRMATION_FRAMES and it is on the allowlist, otherwise UNKNOWN.
C14_TemporalVoting ==
  [][(FrameStep /\ frame_in'.hand /\ ~OutsideRoi(frame_in'.c)
      /\ swipe_gesture' = "UNKNOWN") =>
     /\ Len(gesture_buffer') = IF Len(gesture_buffer) < SMOOTHING_BUFFER_SIZE
                               THEN Len(gesture_buffer) + 1
                               ELSE SMOOTHING_BUFFER_SIZE
     /\ gesture_buffer'[Len(gesture_buffer')] = frame_in'.shape
     /\ \A k \in 1..(Len(gesture_buffer') - 1) :
          gesture_buffer'[Len(gesture_buffer') - k]
            = gesture_buffer[Len(gesture_buffer) + 1 - k]
     /\ final_gesture' # "UNKNOWN" =>
          /\ MostFrequent(gesture_buffer', final_gesture')
          /\ Votes(gesture_buffer', final_gesture') >= GESTURE_CONFIRMATION_FRAMES
          /\ final_gesture' \in enabled_signs
     /\ final_gesture' = "UNKNOWN" =>
          \E l \in {gesture_buffer'[i] : i \in DOMAIN gesture_buffer'} :
            /\ MostFrequent(gesture_buffer', l)
            /\ \/ Votes(gesture_buffer', l) < GESTURE_CONFIRMATION_FRAMES
               \/ l \notin enabled_signs]_vars

\* The buffer of the example, with OPEN_PALM allowlisted, emits OPEN_PALM.
C14_Witness ==
  /\ gesture_buffer = <<"OPEN_PALM", "OPEN_PALM", "THUMBS_UP", "OPEN_PALM", "OPEN_PALM">>
  /\ enabled_signs = {"OPEN_PALM"}
  /\ GESTURE_CONFIRMATION_FRAMES = 2
  /\ frame_in.hand /\ ~OutsideRoi(frame_in.c)
  /\ final_gesture = "OPEN_PALM"

(* -------------------- claims about the swipe detector ----------------- *)

\* history' is history with one sample of time t appended, the oldest sample
\* leaving a full buffer.
Appended(t) ==
  /\ Len(history') = IF Len(history) < SWIPE_HISTORY_LENGTH
                      THEN Len(history) + 1 ELSE SWIPE_HISTORY_LENGTH
  /\ history'[Len(history')].t = t
  /\ \A k \in 1..(Len(history') - 1) :
       history'[Len(history') - k] = history[Len(history) + 1 - k]

\* C15: process returns UNKNOWN whenever fewer than 5 samples are buffered,
\* counting the current one, or the swipe cooldown since the last trigger has
\* not elapsed; in both cases the current sample is appended to the
\* trajectory buffer and the buffer is not cleared.
C15_SwipeGating ==
  [][(FrameStep /\ trajectory' # trajectory
      /\ \/ Len(history) + 1 < SWIPE_MIN_SAMPLES
         \/ wnow' - last_swipe_time < SWIPE_COOLDOWN) =>
     /\ swipe_gesture' = "UNKNOWN"
     /\ Appended(wnow')
     /\ last_swipe_time' = last_swipe_time]_vars

\* Five samples since the last trigger that move right at constant height,
\* evaluated while the cooldown is still running: UNKNOWN, nothing cleared.
C15_Witness ==
  /\ last_swipe_time > 0
  /\ wnow - last_swipe_time < SWIPE_COOLDOWN
  /\ Len(history) >= SWIPE_MIN_SAMPLES
  /\ history[Len(history)].t = wnow
  /\ history[Len(history)].x > history[1].x
  /\ \A i \in DOMAIN history : history[i].y = history[1].y
  /\ swipe_gesture = "UNKNOWN"

\* Net horizontal displacement of buffer h: last x minus first x.
NetDx(h) == h[Len(h)].x - h[1].x

\* C16: whenever process returns a swipe label the trajectory buffer is empty
\* afterwards, the cooldown timestamp equals that call's timestamp, and the
\* label is SWIPE_RIGHT if the net horizontal displacement of the evaluated
\* buffer is positive and SWIPE_LEFT otherwise.
C16_SwipeAcceptance ==
  [][(FrameStep /\ trajectory' # trajectory /\ swipe_gesture' # "UNKNOWN") =>
     /\ history' = <<>>
     /\ last_swipe_time' = wnow'
     /\ trajectory'[Len(trajectory')].t = wnow'
     /\ swipe_gesture' = IF NetDx(trajectory') > 0 THEN "SWIPE_RIGHT"
                                                   ELSE "SWIPE_LEFT"]_vars

\* A leftward trajectory was accepted in the last call.
C16_Witness ==
  /\ swipe_gesture = "SWIPE_LEFT"
  /\ Len(trajectory) >= SWIPE_MIN_SAMPLES
  /\ NetDx(trajectory) < 0
  /\ history = <<>>
  /\ last_swipe_time = wnow

\* n * sum(u v) - sum(u) sum(v) over buffer h for the fields u and v, as
\* half the sum of (u_i - u_j)(v_i - v_j) over all pairs of samples.
PairSum(h, u, v) ==
  LET n == Len(h)
  IN SeqSum([k \in 1..(n * n) |->
               (h[((k - 1) \div n) + 1][u] - h[((k - 1) % n) + 1][u])
               * (h[((k - 1) \div n) + 1][v] - h[((k - 1) % n) + 1][v])]) \div 2

\* The conditions the claim lists for buffer h: at least 5 samples, net
\* displacement at least the direction's minimum (0.02), average horizontal
\* velocity at least 0.4 per second (2 units per tick), y standard deviation
\* at most 0.1, least-squares slope at most 1 and mean squared residual at
\* most 0.02.
Acceptable(h) ==
  LET n == Len(h)
      dx == NetDx(h)
      duration == h[n].t - h[1].t
  IN /\ n >= SWIPE_MIN_SAMPLES
     /\ dx # 0
     /\ Abs(dx) >= (IF dx > 0 THEN SWIPE_MIN_DISTANCE_RIGHT ELSE SWIPE_MIN_DISTANCE_LEFT)
     /\ Abs(dx) >= SWIPE_MIN_VELOCITY * duration
     /\ PairSum(h, "y", "y") <= MAX_Y_VARIANCE * MAX_Y_VARIANCE * n * n
     /\ Abs(PairSum(h, "x", "y")) <= MAX_SLOPE * PairSum(h, "x", "x")
     /\ PairSum(h, "y", "y") * PairSum(h, "x", "x")
          - PairSum(h, "x", "y") * PairSum(h, "x", "y")
        <= MAX_MSE * n * n * PairSum(h, "x", "x")

\* The label the direction of buffer h stands for.
DirectionLabel(h) == IF NetDx(h) > 0 THEN "SWIPE_RIGHT" ELSE "SWIPE_LEFT"

C18_SwipeShortCircuit ==
  [][(FrameStep /\ frame_in'.hand /\ swipe_gesture' # "UNKNOWN") =>
     /\ final_gesture' = swipe_gesture'
     /\ final_gesture' \in {"SWIPE_LEFT", "SWIPE_RIGHT"}
     /\ gesture_buffer' = <<>>]_vars

\* A swipe accepted at the end of an unbroken run of frames of which all
\* earlier ones were in the sign zone and each left a vote in the buffer.
C18_Witness ==
  /\ frame_in.hand /\ swipe_gesture # "UNKNOWN"
  /\ final_gesture = swipe_gesture
  /\ gesture_buffer = <<>>
  /\ Len(trajectory) >= SWIPE_MIN_SAMPLES
  /\ \A i \in 1..(Len(trajectory) - 1) :
       /\ ~OutsideRoi(<<trajectory[i].x, trajectory[i].y>>)
       /\ trajectory[i + 1].t = trajectory[i].t + 1

(* ------------------- claims about the gesture recorder ---------------- *)

\* C19: a template present in the store is never modified by a later
\* operation: save_gesture only adds an entry under a new name and leaves
\* every existing entry unchanged, and find_match never changes the store.
C19_StoredTemplatesImmutable ==
  [][\A i \in DOMAIN gestures :
       /\ i \in DOMAIN gestures'
       /\ gestures'[i] = gestures[i]]_vars

(* -------------------- claims about profile selection ------------------ *)

\* str.lower() on one character
LowerChar(c) ==
  LET lower == [A |-> "a", B |-> "b", C |-> "c", D |-> "d", E |-> "e",
                F |-> "f", G |-> "g", H |-> "h", I |-> "i", J |-> "j",
                K |-> "k", L |-> "l", M |-> "m", N |-> "n", O |-> "o",
                P |-> "p", Q |-> "q", R |-> "r", S |-> "s", T |-> "t",
                U |-> "u", V |-> "v", W |-> "w", X |-> "x", Y |-> "y",
                Z |-> "z"]
  IN IF c \in DOMAIN lower THEN lower[c] ELSE c

\* str.lower() on a sequence of characters
Lower(t) == [i \in DOMAIN t |-> LowerChar(t[i])]

\* fragment occurs in title, case-insensitively
OccursIn(fragment, title) ==
  \E i \in 1..(Len(title) - Len(fragment) + 1) :
    SubSeq(Lower(title), i, i + Len(fragment) - 1) = Lower(fragment)

\* The window-profile rules with a title fragment, in the order of
\* config.APP_MATCHING_RULES.
TitleRules ==
  << [title |-> <<"P", "o", "w", "e", "r", "P", "o", "i", "n", "t">>, profile |-> "POWERPOINT"],
     [title |-> <<"G", "o", "o", "g", "l", "e", " ", "S", "l", "i", "d", "e", "s">>, profile |-> "POWERPOINT"],
     [title |-> <<"C", "h", "r", "o", "m", "e">>, profile |-> "CHROME"],
     [title |-> <<"E", "d", "g", "e">>, profile |-> "CHROME"] >>

\* The profile of the first rule whose fragment occurs in title, DEFAULT when
\* there is none.
ExpectedProfile(title) ==
  IF \E i \in DOMAIN TitleRules : OccursIn(TitleRules[i].title, title)
  THEN TitleRules[CHOOSE i \in DOMAIN TitleRules :
                    /\ OccursIn(TitleRules[i].title, title)
                    /\ \A j \in 1..(i - 1) : ~OccursIn(TitleRules[j].title, title)].profile
  ELSE "DEFAULT"

\* C20: once the foreground window title has been read, the active profile
\* is the profile of the first window-profile rule whose title fragment occurs
\* in it, case-insensitively, and DEFAULT when no rule matches.
C20_ProfileFollowsWindowTitle ==
  window_title # NoTitle => current_profile_name = ExpectedProfile(window_title)

(* ------------------ claims about the camera lifecycle ----------------- *)

\* C21: at most one worker thread is alive at any time, over any sequence of
\* start_camera, stop_camera and change_camera commands.
C21_SingleWorker == Cardinality(AliveThreads) <= 1

(* -------------------- claims about the low-light flag ----------------- *)

\* C22: the low-light flag changes only on every 30th processed frame; it
\* turns on only if it was off and the average luminance is below 80, turns
\* off only if it was on and the luminance is above 100, and a luminance
\* within [80, 100] never changes it.
C22_LowLightHysteresis ==
  [][frame_counter' # frame_counter =>
     /\ low_light_mode' # low_light_mode => frame_counter' % 30 = 0
     /\ (~low_light_mode /\ low_light_mode') => avg' < 80
     /\ (low_light_mode /\ ~low_light_mode') => avg' > 100
     /\ (avg' >= 80 /\ avg' <= 100) => low_light_mode' = low_light_mode]_vars

\* The flag went off at one check and on again at a later one, and a check
\* that measured a luminance inside the band has left it on.
C22_Witness ==
  /\ toggles = 2
  /\ low_light_mode
  /\ frame_counter = 90
  /\ avg \in {80, 90, 100}

(* ---------------------- claims about the buffers ---------------------- *)

\* new is old with one entry appended, the oldest entry leaving a buffer that
\* already held max entries.
OneAppended(old, new, max) ==
  /\ Len(new) = IF Len(old) < max THEN Len(old) + 1 ELSE max
  /\ \A k \in 1..(Len(new) - 1) : new[Len(new) - k] = old[Len(old) + 1 - k]

\* C23: after every process_frame cycle the vote buffer holds at most 5 labels
\* and the swipe trajectory at most 10 samples; a cycle leaves each buffer as
\* it was, empties it, or appends exactly one entry to it, and an append to a
\* full buffer evicts its oldest entry.
C23_BufferBounds ==
  [][FrameStep =>
     /\ Len(gesture_buffer') <= 5
     /\ Len(history') <= 10
     /\ \/ gesture_buffer' = gesture_buffer
        \/ gesture_buffer' = <<>>
        \/ OneAppended(gesture_buffer, gesture_buffer', 5)
     /\ \/ history' = history
        \/ history' = <<>>
        \/ OneAppended(history, history', 10)]_vars

\* Both buffers are full and have evicted: eleven frames in a row were voted
\* on without a swipe, so that the first sample and the first vote are gone.
C23_Witness ==
  /\ Len(gesture_buffer) = 5
  /\ Len(history) = 10
  /\ history[1].t = SWIPE_COOLDOWN + 2
  /\ history[10].t = wnow

(* ------------------ claims about shape classification ----------------- *)

\* The rules of the claim in their priority order, for extension flags f, the
\* result ok of the pinch test and thumb tip above the thumb joint (above).
ShapeRules(f, ok, above) ==
  <<[when |-> f.thumb /\ f.index /\ f.middle /\ f.ring /\ f.pinky,
     label |-> "OPEN_PALM"],
    [when |-> ~(f.thumb \/ f.index \/ f.middle \/ f.ring \/ f.pinky),
     label |-> "FIST"],
    [when |-> f.index /\ ~(f.thumb \/ f.middle \/ f.ring \/ f.pinky),
     label |-> "INDEX_POINTING_UP"],
    [when |-> f.index /\ f.middle /\ ~(f.thumb \/ f.ring \/ f.pinky),
     label |-> "V_SIGN"],
    [when |-> f.thumb /\ f.index /\ f.pinky /\ ~(f.middle \/ f.ring),
     label |-> "SPIDERMAN"],
    [when |-> ok, label |-> "OK_SIGN"],
    [when |-> f.thumb /\ above /\ ~(f.index \/ f.middle \/ f.ring \/ f.pinky),
     label |-> "THUMBS_UP"],
    [when |-> f.thumb /\ ~above /\ ~(f.index \/ f.middle \/ f.ring \/ f.pinky),
     label |-> "THUMBS_DOWN"]>>

\* the names of the templates of store g within the error threshold of lms
WithinThreshold(g, lms) ==
  {g[i].name : i \in {j \in DOMAIN g :
      SquaredError(NormalizeLandmarks(lms), g[j].template)
        < MATCH_THRESHOLD * 100 * 2 * NUM_LANDMARKS}}

\* what the claim says of the last call of _recognize_gesture
Classified ==
  LET rules == ShapeRules(ExtensionFlags(pose_landmarks),
                          IsOkSign(pose_landmarks),
                          pose_landmarks[4][2] < pose_landmarks[3][2])
      hits == {i \in DOMAIN rules : rules[i].when}
  IN IF hits # {}
     THEN /\ shape = rules[CHOOSE i \in hits : \A j \in hits : i <= j].label
          /\ ~consulted
     ELSE /\ consulted
          /\ IF WithinThreshold(seen_gestures, pose_landmarks) = {}
             THEN shape = "UNKNOWN"
             ELSE shape \in WithinThreshold(seen_gestures, pose_landmarks)

\* C24: _recognize_gesture returns the label of the first rule, in the order
\* OPEN_PALM, FIST, INDEX_POINTING_UP, V_SIGN, SPIDERMAN, OK_SIGN, THUMBS_UP /
\* THUMBS_DOWN, that the extension flags, the pinch test and the thumb's
\* vertical order satisfy; it consults the template matcher only when no rule
\* is satisfied, and then returns UNKNOWN if no template is within the
\* threshold.
C24_ShapePriority == pose_landmarks # NoLandmarks => Classified

\* A pinched hand that is also a fist by its flags was classified, and the
\* store holds a template.
C24_Witness ==
  /\ pose_landmarks # NoLandmarks
  /\ IsOkSign(pose_landmarks)
  /\ shape = "FIST"
  /\ seen_gestures # <<>>

(* -------------------- claims about the landmark filters --------------- *)

\* C25: the filter of landmark i changes only from the measurements given
\* for landmark i: two filters that were given the same measurements are in
\* the same state whatever the other landmarks were given;
\* get_smoothed_position(i, ...) leaves every filter other than i unchanged,
\* and with an index out of range it changes no filter and returns the raw
\* position.
C25_LandmarkIndependence ==
  [][ls_calls' # ls_calls =>
       /\ \A i, j \in DOMAIN landmark_smoother' :
            fed'[i] = fed'[j] => landmark_smoother'[i] = landmark_smoother'[j]
       /\ \A i \in DOMAIN landmark_smoother' :
            fed'[i] = fed[i] => landmark_smoother'[i] = landmark_smoother[i]
       /\ ls_call'.op = "get" =>
            /\ \A j \in DOMAIN landmark_smoother :
                 j # ls_call'.idx => landmark_smoother'[j] = landmark_smoother[j]
            /\ ls_call'.idx \notin DOMAIN landmark_smoother =>
                 /\ landmark_smoother' = landmark_smoother
                 /\ smoothed' = <<100 * ls_call'.raw[1], 100 * ls_call'.raw[2]>>]_vars

\* After updates whose lists differ at the index tip and a single-landmark
\* call for the wrist, the filters of wrist and index tip have left the
\* others, which agree with each other; the last call had an index out of
\* range.
C25_Witness ==
  /\ ls_calls = MaxLandmarkCalls
  /\ ls_call.op = "get" /\ ls_call.idx = NUM_LANDMARKS
  /\ Len(fed[8]) >= 2 /\ Len(fed[0]) > Len(fed[8])
  /\ landmark_smoother[8] # landmark_smoother[5]
  /\ landmark_smoother[0] # landmark_smoother[5]
  /\ landmark_smoother[5] = landmark_smoother[20]

(* -------------------- claims about the pointer smoother --------------- *)

\* C26 as stated: once reset() was called, the entire state of the smoother,
\* the measurement-noise weight included, equals that of a smoother
\* constructed at the reset and given the same updates since.
C26_ResetEqualsFresh ==
  since_reset # -1 => used_smoother = fresh_smoother

\* C26, amended: once reset() was called, the state of the smoother equals
\* that of a smoother constructed at the reset and given the same updates
\* since, but for the measurement-noise weight, which reset() leaves and the
\* second update after the reset sets anew; the positions the two smoothers
\* return are the same.
C26_ResetEqualsFreshButNoise ==
  since_reset # -1 =>
    /\ [used_smoother EXCEPT !.kalman.r = fresh_smoother.kalman.r] = fresh_smoother
    /\ since_reset = 2 => used_smoother.kalman.r = fresh_smoother.kalman.r
    /\ PointerPosition(used_smoother) = PointerPosition(fresh_smoother)

\* The smoother was reset with a measurement-noise weight that a new
\* smoother does not have, and has smoothed one position since.
C26_Witness ==
  /\ since_reset = 1
  /\ used_smoother.kalman.r # fresh_smoother.kalman.r
  /\ used_smoother.kalman.initialized
  /\ PointerPosition(used_smoother) # <<0, 0>>

(* ------------------ claims about dispatch and cooldown ---------------- *)

\* C27: a cycle whose label is mapped, not UNKNOWN and not the last-dispatched
\* label, and which comes before the cooldown has elapsed, executes nothing and
\* leaves the last-dispatched label and timestamp as they were; when the same
\* label arrives again on the next cycle and the cooldown has elapsed by then,
\* that cycle executes the label's action.
C27_BlockedThenFires ==
  [][CycleStep =>
     /\ (Dispatchable(gesture') /\ now' - last_gesture_time <= GESTURE_COOLDOWN)
        => /\ hotkeys' = <<>>
           /\ last_gesture' = last_gesture
           /\ last_gesture_time' = last_gesture_time
     /\ (Dispatchable(gesture') /\ gesture' = gesture
         /\ now - last_gesture_time <= GESTURE_COOLDOWN
         /\ now' - last_gesture_time > GESTURE_COOLDOWN)
        => hotkeys' = <<CurrentProfile[gesture']>>]_vars

\* C28: a cycle that sets the last-dispatched label to a label and the
\* timestamp to its time has issued the key action mapped to that label, for
\* OPEN_PALM in overlay mode as for every other mapped label.
C28_UpdateImpliesAction ==
  [][(CycleStep /\ last_gesture' # NoGesture
      /\ (last_gesture' # last_gesture \/ last_gesture_time' # last_gesture_time))
     => hotkeys' = <<CurrentProfile[last_gesture']>>]_vars

(* ----------------------- claims about the allowlist ------------------- *)

\* C29: every sign on the allowlist is a label that _recognize_gesture
\* returns for some hand, so that the vote can emit it.
C29_EnabledSignsRecognizable ==
  \A sign \in enabled_signs :
    \E lms \in PosedHands : RecognizeGesture(lms, gestures).label = sign

(* ----------------- claims about lifecycle notifications --------------- *)

\* C30: once stop_camera has published "Status: Stopped" and "camera:stopped",
\* neither "Status: Running" nor "camera:started" is published before
\* start_camera is called again (a call that has passed its guard and has not
\* yet published counts as called).
C30_NoStartedAfterStopped ==
  [][(/\ events = [status |-> "Status: Stopped", event |-> "camera:stopped"]
      /\ cm_pc # "create"
      /\ timer_pc # "create")
     => /\ events'.status # "Status: Running"
        /\ events'.event # "camera:started"]_vars

====
